---- MODULE Spec2Model ----
(***************************************************************************)
(* Model of the incremental profile-extraction engine of                   *)
(* backend/src/search_summarizer/chat_consultant.py (run_chat and the pure *)
(* functions it calls).                                                    *)
(*                                                                         *)
(* Text is modelled at word level: a string is the sequence of its         *)
(* whitespace-separated words, "" / None / a missing key is the empty      *)
(* sequence, a regular expression made of literal alternatives is the set  *)
(* of its phrases, and `x in text` is phrase containment.  Letters of a    *)
(* word are kept where the code looks inside a word (_similar).            *)
(***************************************************************************)
EXTENDS Integers, Sequences, FiniteSets, TLC

\* ------------------------------------------------------------------ bounds
\* Number of run_chat calls explored in one conversation.
MaxTurns == 2

\* Calls of each of two conversations that share an interpreter.
MaxConvTurns == 2

\* Entries of the module search path: the initial one and one for every search.
MaxPath == 5

\* max_retries of call_groq_single, from 0 to this.
MaxRetries == 2

\* ------------------------------------------------------- generic helpers
Null == <<>>

Truthy(v) == v # Null

RECURSIVE SeqToSet(_)
SeqToSet(s) == IF s = <<>> THEN {} ELSE {Head(s)} \cup SeqToSet(Tail(s))

InSeq(x, s) == \E i \in 1..Len(s) : s[i] = x

\* p occurs in u as a run of consecutive words.
ContainsPhrase(u, p) ==
    /\ Len(p) > 0
    /\ \E i \in 1..(Len(u) - Len(p) + 1) : SubSeq(u, i, i + Len(p) - 1) = p

ContainsAny(u, phrases) == \E p \in phrases : ContainsPhrase(u, p)

\* [x for x in s if Keep(x)]
RECURSIVE FilterSeq(_, _)
FilterSeq(s, keep) ==
    IF s = <<>> THEN <<>>
    ELSE IF Head(s) \in keep THEN <<Head(s)>> \o FilterSeq(Tail(s), keep)
    ELSE FilterSeq(Tail(s), keep)

RECURSIVE SumLen(_)
SumLen(ws) == IF ws = <<>> THEN 0 ELSE Len(Head(ws)) + 1 + SumLen(Tail(ws))

\* ------------------------------------------------------------ text helpers
\* str.lower() on one word (the vocabulary is lower case apart from these).
LowerWord(w) ==
    CASE w = "B2B" -> "b2b"
      [] w = "B2C" -> "b2c"
      [] w = "D2C" -> "d2c"
      [] w = "MISTO" -> "misto"
      [] w = "Troty" -> "troty"
      [] w = "Indaiatuba" -> "indaiatuba"
      [] w = "Instagram" -> "instagram"
      [] w = "R$" -> "r$"
      [] OTHER -> w

\* str.upper() on one word, for the words a model may propose as modelo/segmento.
UpperWord(w) ==
    CASE w \in {"b2b", "B2B"} -> "B2B"
      [] w \in {"b2c", "B2C"} -> "B2C"
      [] w \in {"d2c", "D2C"} -> "D2C"
      [] w \in {"misto", "MISTO"} -> "MISTO"
      [] w = "varejo" -> "VAREJO"
      [] w = "brownies" -> "BROWNIES"
      [] w = "caseiros" -> "CASEIROS"
      [] w = "perfumaria" -> "PERFUMARIA"

\* Removal of combining marks after NFKD, on a lower-cased word.
StripAccents(w) ==
    CASE w = "não" -> "nao"
      [] w = "é" -> "e"
      [] w = "são" -> "sao"
      [] w = "lá" -> "la"
      [] w = "só" -> "so"
      [] w = "física" -> "fisica"
      [] OTHER -> w

\* str.lower(), word by word.
RECURSIVE Lower(_)
Lower(s) == IF s = <<>> THEN <<>> ELSE <<LowerWord(Head(s))>> \o Lower(Tail(s))

\* str.upper(), word by word.
RECURSIVE Upper(_)
Upper(s) == IF s = <<>> THEN <<>> ELSE <<UpperWord(Head(s))>> \o Upper(Tail(s))

\* _normalize: lower-case, then strip accents.
RECURSIVE Normalize(_)
Normalize(s) ==
    IF s = <<>> THEN <<>> ELSE <<StripAccents(LowerWord(Head(s)))>> \o Normalize(Tail(s))

\* The characters of a (normalized) word, as iterating a Python str yields them.
Letters(w) ==
    CASE w = "nao" -> <<"n", "a", "o">>
      [] w = "sei" -> <<"s", "e", "i">>
      [] w = "me" -> <<"m", "e">>
      [] w = "ajuda" -> <<"a", "j", "u", "d", "a">>
      [] w = "sim" -> <<"s", "i", "m">>
      [] w = "discordo" -> <<"d", "i", "s", "c", "o", "r", "d", "o">>
      [] w = "faz" -> <<"f", "a", "z">>
      [] w = "sentido" -> <<"s", "e", "n", "t", "i", "d", "o">>
      [] w = "pode" -> <<"p", "o", "d", "e">>
      [] w = "ser" -> <<"s", "e", "r">>
      [] w = "isso" -> <<"i", "s", "s", "o">>
      [] w = "vendo" -> <<"v", "e", "n", "d", "o">>
      [] w = "brownies" -> <<"b", "r", "o", "w", "n", "i", "e", "s">>
      [] w = "para" -> <<"p", "a", "r", "a">>
      [] w = "jovens" -> <<"j", "o", "v", "e", "n", "s">>
      [] w = "em" -> <<"e", "m">>
      [] w = "campinas" -> <<"c", "a", "m", "p", "i", "n", "a", "s">>
      [] w = "campinnas" -> <<"c", "a", "m", "p", "i", "n", "n", "a", "s">>
      [] w = "acme" -> <<"a", "c", "m", "e">>
      [] w = "gerar" -> <<"g", "e", "r", "a", "r">>
      [] w = "b2b" -> <<"b", "2", "b">>
      [] w = "b2c" -> <<"b", "2", "c">>
      [] w = "perfumaria" -> <<"p", "e", "r", "f", "u", "m", "a", "r", "i", "a">>
      [] w = "idosos" -> <<"i", "d", "o", "s", "o", "s">>
      [] w = "produto" -> <<"p", "r", "o", "d", "u", "t", "o">>
      [] w = "sozinho" -> <<"s", "o", "z", "i", "n", "h", "o">>
      [] w = "ceramica" -> <<"c", "e", "r", "a", "m", "i", "c", "a">>
      [] w = "artesanais" -> <<"a", "r", "t", "e", "s", "a", "n", "a", "i", "s">>
      [] w = "troty" -> <<"t", "r", "o", "t", "y">>
      [] w = "caseiros" -> <<"c", "a", "s", "e", "i", "r", "o", "s">>
      [] w = "indaiatuba" -> <<"i", "n", "d", "a", "i", "a", "t", "u", "b", "a">>
      [] w = "poucas" -> <<"p", "o", "u", "c", "a", "s">>
      [] w = "vendas" -> <<"v", "e", "n", "d", "a", "s">>
      [] w = "aumentar" -> <<"a", "u", "m", "e", "n", "t", "a", "r">>
      [] w = "faturamento" -> <<"f", "a", "t", "u", "r", "a", "m", "e", "n", "t", "o">>
      [] w = "500" -> <<"5", "0", "0">>
      [] w = "eu" -> <<"e", "u">>
      [] w = "e" -> <<"e">>
      [] w = "meu" -> <<"m", "e", "u">>
      [] w = "filho" -> <<"f", "i", "l", "h", "o">>
      [] w = "instagram" -> <<"i", "n", "s", "t", "a", "g", "r", "a", "m">>
      [] w = "na" -> <<"n", "a">>
      [] w = "rua" -> <<"r", "u", "a">>
      [] w = "misto" -> <<"m", "i", "s", "t", "o">>
      [] w = "d2c" -> <<"d", "2", "c">>
      [] w = "varejo" -> <<"v", "a", "r", "e", "j", "o">>
      [] w = "adultos" -> <<"a", "d", "u", "l", "t", "o", "s">>
      [] w = "5" -> <<"5">>
      [] w = "mil" -> <<"m", "i", "l">>
      [] w = "quem" -> <<"q", "u", "e", "m">>
      [] w = "cliente" -> <<"c", "l", "i", "e", "n", "t", "e">>
      [] w = "5000" -> <<"5", "0", "0", "0">>
      [] w = "50000" -> <<"5", "0", "0", "0", "0">>
      [] w = "5.000" -> <<"5", ".", "0", "0", "0">>
      [] w = "50.000" -> <<"5", "0", ".", "0", "0", "0">>
      [] w = "r$" -> <<"r", "$">>
      [] w = "tenho" -> <<"t", "e", "n", "h", "o">>
      [] w = "investir" -> <<"i", "n", "v", "e", "s", "t", "i", "r">>
      [] w = "agora" -> <<"a", "g", "o", "r", "a">>
      [] w = "zero" -> <<"z", "e", "r", "o">>

CountOf(cs, c) == Cardinality({i \in 1..Len(cs) : cs[i] = c})

Min2(a, b) == IF a <= b THEN a ELSE b

Max2(a, b) == IF a >= b THEN a ELSE b

RECURSIVE SumOver(_, _, _)
\* sum((c1 & c2).values()) over the distinct characters cset of s1.
SumOver(cset, l1, l2) ==
    IF cset = {} THEN 0
    ELSE LET c == CHOOSE x \in cset : TRUE
         IN Min2(CountOf(l1, c), CountOf(l2, c)) + SumOver(cset \ {c}, l1, l2)

\* _similar(s1, s2, threshold) with the threshold in percent.
Similar(s1, s2, thresholdPct) ==
    IF s1 = s2 THEN TRUE
    ELSE IF s1 = "" \/ s2 = "" THEN FALSE
    ELSE LET l1 == Letters(s1)
             l2 == Letters(s2)
             len_max == Max2(Len(l1), Len(l2))
             len_min == Min2(Len(l1), Len(l2))
         IN IF 2 * len_max > 3 * len_min THEN FALSE
            ELSE LET common == SumOver(SeqToSet(l1), l1, l2)
                     total == Len(l1)
                 IN total > 0 /\ 100 * common >= thresholdPct * total

\* ---------------------------------------------------------- field registry
REQUIRED_FIELDS ==
    <<"nome_negocio", "segmento", "modelo", "localizacao", "dificuldades", "objetivos">>

OPTIONAL_FIELDS ==
    <<"tempo_operacao", "num_funcionarios", "tipo_produto", "ticket_medio",
      "faturamento_mensal", "canais_venda", "concorrentes", "diferencial",
      "cliente_ideal", "investimento_marketing">>

CONTEXT_FIELDS ==
    <<"modelo_operacional", "capital_disponivel", "principal_gargalo", "margem_lucro",
      "tempo_entrega", "origem_clientes", "maior_objecao">>

DIGITAL_PRESENCE_FIELDS ==
    <<"instagram_handle", "linkedin_url", "site_url", "email_contato",
      "whatsapp_numero", "google_maps_url">>

PRIORITY_OPTIONAL ==
    <<"capital_disponivel", "num_funcionarios", "canais_venda", "cliente_ideal",
      "ticket_medio", "modelo_operacional", "faturamento_mensal">>

ALL_FIELDS == REQUIRED_FIELDS \o OPTIONAL_FIELDS \o CONTEXT_FIELDS \o DIGITAL_PRESENCE_FIELDS

RESEARCHABLE_FIELDS ==
    {"concorrentes", "cliente_ideal", "diferencial", "margem_lucro", "ticket_medio",
     "principal_gargalo", "origem_clientes", "maior_objecao"}

\* An order that asks for the age of the business before the priority fields.
collectible_fields_optional_first ==
    <<"nome_negocio", "segmento", "modelo", "localizacao", "dificuldades", "objetivos",
      "tempo_operacao",
      "capital_disponivel", "num_funcionarios", "canais_venda", "cliente_ideal",
      "ticket_medio", "modelo_operacional", "faturamento_mensal",
      "tipo_produto", "concorrentes", "diferencial",
      "principal_gargalo", "margem_lucro", "origem_clientes", "maior_objecao", "tempo_entrega",
      "instagram_handle", "linkedin_url", "site_url", "email_contato",
      "whatsapp_numero", "google_maps_url">>

ALL_COLLECTIBLE_FIELDS_ORDER ==
    <<"nome_negocio", "segmento", "modelo", "localizacao", "dificuldades", "objetivos",
      "capital_disponivel", "num_funcionarios", "canais_venda", "cliente_ideal",
      "ticket_medio", "modelo_operacional", "faturamento_mensal",
      "tempo_operacao", "tipo_produto", "concorrentes", "diferencial",
      "principal_gargalo", "margem_lucro", "origem_clientes", "maior_objecao", "tempo_entrega",
      "instagram_handle", "linkedin_url", "site_url", "email_contato",
      "whatsapp_numero", "google_maps_url">>

\* The keys of a profile that are registered fields.
FieldNames == SeqToSet(ALL_FIELDS)

\* The empty profile {}: every field reads as absent.
EmptyProfile == [f \in FieldNames |-> Null]

\* The first element of seq order whose field is empty in profile p, or "" (None).
\* `skip` are the names the comprehension excludes.
RECURSIVE FirstMissing(_, _, _)
FirstMissing(order, p, skip) ==
    IF order = <<>> THEN ""
    ELSE IF ~Truthy(p[Head(order)]) /\ Head(order) \notin skip THEN Head(order)
    ELSE FirstMissing(Tail(order), p, skip)

\* [f for f in order if not p.get(f)]
RECURSIVE MissingOf(_, _)
MissingOf(order, p) ==
    IF order = <<>> THEN <<>>
    ELSE IF ~Truthy(p[Head(order)]) THEN <<Head(order)>> \o MissingOf(Tail(order), p)
    ELSE MissingOf(Tail(order), p)

\* [f for f in order if p.get(f)]
RECURSIVE CollectedOf(_, _)
CollectedOf(order, p) ==
    IF order = <<>> THEN <<>>
    ELSE IF Truthy(p[Head(order)]) THEN <<Head(order)>> \o CollectedOf(Tail(order), p)
    ELSE CollectedOf(Tail(order), p)


\* ------------------------------------------------------- intent detection
\* first ... second with at most maxgap characters between them (regex a.{0,n}b):
\* a word of `firsts`, then a phrase of `seconds`, the words between them and the
\* separating blanks counted as characters.
GapMatch(u, firsts, seconds, maxgap) ==
    \E i \in 1..Len(u) : \E j \in (i + 1)..Len(u) : \E p \in seconds :
        /\ u[i] \in firsts
        /\ j + Len(p) - 1 <= Len(u)
        /\ SubSeq(u, j, j + Len(p) - 1) = p
        /\ 1 + SumLen(SubSeq(u, i + 1, j - 1)) <= maxgap

\* confirm_patterns[0]: ^(...)[\s!.]*$
confirm_exact ==
    {<<"sim">>, <<"ok">>, <<"tá", "bom">>, <<"ta", "bom">>, <<"pode", "ser">>,
     <<"concordo">>, <<"isso">>, <<"exato">>, <<"correto">>, <<"beleza">>,
     <<"perfeito">>, <<"legal">>, <<"certo">>, <<"certinho">>}

\* confirm_patterns[1] and [2]: searched anywhere in the message.
confirm_any ==
    {<<"esses", "mesmo">>, <<"são", "esses">>, <<"sao", "esses">>, <<"concordo">>,
     <<"isso", "mesmo">>, <<"é", "isso">>, <<"certinho">>, <<"faz", "sentido">>,
     <<"pode", "ser">>, <<"tá", "certo">>, <<"ta", "certo">>, <<"isso", "aí">>,
     <<"isso", "ai">>, <<"valeu">>, <<"show">>, <<"massa">>, <<"boa">>}

\* reject_patterns[1], [2] and [4]: searched anywhere in the message.
reject_any ==
    {<<"discordo">>, <<"errado">>, <<"incorreto">>, <<"melhora">>, <<"refaz">>,
     <<"refaça">>, <<"na", "verdade">>, <<"diferente">>, <<"não", "é", "bem">>,
     <<"nao", "e", "bem">>, <<"nada", "a", "ver">>, <<"sem", "sentido">>,
     <<"não", "faz", "sentido">>, <<"nao", "faz", "sentido">>}

\* reject_patterns[3]: ^(não|nao|n)[\s!.]*$
reject_exact == {<<"não">>, <<"nao">>, <<"n">>}

\* reject_patterns[0]: (não|nao).{0,15}(é|são|sao|concordo|certo|isso|esse|essa|faz sentido)
reject_negated ==
    {<<"é">>, <<"são">>, <<"sao">>, <<"concordo">>, <<"certo">>, <<"isso">>,
     <<"esse">>, <<"essa">>, <<"faz", "sentido">>}

MatchesReject(user_message) ==
    LET msg_lower == Lower(user_message)
    IN \/ GapMatch(msg_lower, {"não", "nao"}, reject_negated, 15)
       \/ ContainsAny(msg_lower, reject_any)
       \/ GapMatch(msg_lower, {"pesquisa"}, {<<"de", "novo">>}, 10)
       \/ msg_lower \in reject_exact

MatchesConfirm(user_message) ==
    LET msg_lower == Lower(user_message)
    IN msg_lower \in confirm_exact \/ ContainsAny(msg_lower, confirm_any)

detect_research_response(user_message) ==
    IF MatchesReject(user_message) THEN "reject"
    ELSE IF MatchesConfirm(user_message) THEN "confirm"
    ELSE "other"

\* run_chat's is_still_dont_know:
\* n[aã]o sei|sei l[aá]|n[aã]o fa[cç]o ideia|n[aã]o tenho certeza|pode ser|tanto faz
still_dont_know_patterns ==
    {<<"não", "sei">>, <<"nao", "sei">>, <<"sei", "lá">>, <<"sei", "la">>,
     <<"não", "faço", "ideia">>, <<"nao", "faço", "ideia">>,
     <<"não", "faco", "ideia">>, <<"nao", "faco", "ideia">>,
     <<"não", "tenho", "certeza">>, <<"nao", "tenho", "certeza">>,
     <<"pode", "ser">>, <<"tanto", "faz">>}

is_still_dont_know(user_message) ==
    ContainsAny(Lower(user_message), still_dont_know_patterns)

\* should_search_proactively's dont_know_patterns (the alternatives that contain
\* another alternative are listed all the same).
dont_know_patterns ==
    {<<"não", "sei">>, <<"nao", "sei">>, <<"pesquisa">>, <<"me", "ajuda">>,
     <<"não", "conheço">>, <<"nao", "conheco">>, <<"não", "faço", "ideia">>,
     <<"não", "tenho", "certeza">>, <<"nao", "tenho", "ideia">>, <<"sei", "lá">>,
     <<"sei", "la">>, <<"não", "sei", "dizer">>, <<"nao", "sei", "dizer">>,
     <<"pode", "pesquisar">>, <<"pesquisa", "pra", "mim">>, <<"pesquisa", "ai">>,
     <<"busca", "pra", "mim">>}

UserDoesntKnow(user_message) ==
    LET msg_lower == Lower(user_message)
    IN \/ ContainsAny(msg_lower, dont_know_patterns)
       \/ GapMatch(msg_lower, {"ajuda"}, {<<"descobrir">>}, 1000)

\* run_chat's user_said_dont_know pattern (without the should_search conjunct).
said_dont_know_patterns ==
    {<<"não", "sei">>, <<"nao", "sei">>, <<"sei", "lá">>, <<"sei", "la">>,
     <<"não", "faço", "ideia">>, <<"nao", "faco", "ideia">>,
     <<"não", "tenho", "certeza">>, <<"nao", "tenho", "certeza">>}

SaidDontKnow(user_message) == ContainsAny(Lower(user_message), said_dont_know_patterns)

\* run_chat's user_wants_finish list.
finish_phrases ==
    {<<"pode", "gerar">>, <<"analisar">>, <<"pronto">>, <<"terminar">>, <<"concluir">>,
     <<"gerar", "análise">>, <<"gerar", "a", "análise">>, <<"fazer", "análise">>,
     <<"vamos", "analisar">>}

user_wants_finish(user_message) == ContainsAny(Lower(user_message), finish_phrases)

\* should_search_proactively's problem_patterns, as the phrases of the vocabulary
\* their stems match.
problem_phrases ==
    {<<"mais", "clientes">>, <<"poucos", "clientes">>, <<"não", "vendo">>,
     <<"preço">>, <<"margem">>, <<"concorrência">>, <<"marketing">>, <<"divulgar">>}

MentionsProblem(user_message) == ContainsAny(Lower(user_message), problem_phrases)

\* ------------------------------------------------- assistant message text
\* An assistant message is kept as what the code reads from it: the fields whose
\* get_field_from_context keywords occur in it (mentions), the keyword_map fields
\* whose keyword occurs in its first question (asks), and whether it holds the
\* search marker.
field_keywords_order ==
    <<"concorrentes", "cliente_ideal", "diferencial", "ticket_medio", "margem_lucro",
      "principal_gargalo", "origem_clientes", "maior_objecao", "capital_disponivel",
      "num_funcionarios", "canais_venda", "modelo_operacional", "faturamento_mensal",
      "tempo_operacao", "tipo_produto">>

\* The field_keywords entries that occur in FIELD_PROMPTS_ALL[f].
PromptMentions(f) ==
    CASE f \in {"capital_disponivel", "num_funcionarios", "cliente_ideal", "ticket_medio",
                "modelo_operacional", "faturamento_mensal", "tempo_operacao",
                "concorrentes", "diferencial", "margem_lucro", "maior_objecao"} -> {f}
      [] f = "principal_gargalo" -> {"principal_gargalo", "modelo_operacional"}
      [] OTHER -> {}

\* The field_keywords entries that occur in FIELD_LABELS_PT[f].
LabelMentions(f) ==
    CASE f \in {"num_funcionarios", "tipo_produto", "ticket_medio", "faturamento_mensal",
                "canais_venda", "concorrentes", "diferencial", "cliente_ideal",
                "capital_disponivel", "modelo_operacional", "principal_gargalo",
                "margem_lucro", "origem_clientes", "maior_objecao"} -> {f}
      [] f = "tempo_operacao" -> {"modelo_operacional", "tempo_operacao"}
      [] OTHER -> {}

RECURSIVE FirstIn(_, _)
FirstIn(order, set) ==
    IF order = <<>> THEN ""
    ELSE IF Head(order) \in set THEN Head(order)
    ELSE FirstIn(Tail(order), set)

LastN(s, n) == IF Len(s) <= n THEN s ELSE SubSeq(s, Len(s) - n + 1, Len(s))

RECURSIVE FieldFromReversed(_)
\* The loop of get_field_from_context over reversed(messages[-3:]).
FieldFromReversed(ms) ==
    IF ms = <<>> THEN ""
    ELSE LET m == ms[Len(ms)]
             rest == SubSeq(ms, 1, Len(ms) - 1)
         IN IF m.role # "assistant" THEN FieldFromReversed(rest)
            ELSE IF FirstIn(field_keywords_order, m.content.mentions) # ""
                 THEN FirstIn(field_keywords_order, m.content.mentions)
            ELSE FieldFromReversed(rest)

get_field_from_context(messages) == FieldFromReversed(LastN(messages, 3))

\* sum(1 for m in messages if role == assistant and the search marker in content)
RECURSIVE PastSearches(_)
PastSearches(ms) ==
    IF ms = <<>> THEN 0
    ELSE (IF Head(ms).role = "assistant" /\ Head(ms).content.icon THEN 1 ELSE 0)
         + PastSearches(Tail(ms))

\* all user text of the history, in order.
RECURSIVE UserText(_)
UserText(ms) ==
    IF ms = <<>> THEN <<>>
    ELSE (IF Head(ms).role = "user" THEN Head(ms).content ELSE <<>>) \o UserText(Tail(ms))

\* The first question of the last assistant message that has one (keyword_map
\* fallback): the keyword_map fields whose keyword occurs in it.
RECURSIVE RecentAsks(_)
RecentAsks(ms) ==
    IF ms = <<>> THEN {}
    ELSE LET m == ms[Len(ms)]
         IN IF m.role = "assistant" /\ m.content.question THEN m.content.asks
            ELSE RecentAsks(SubSeq(ms, 1, Len(ms) - 1))

\* keyword_map of should_search_proactively, as (entry, field) in list order; the
\* entry names what the keyword asks about, "" is a None field.
keyword_map ==
    <<[key |-> "concorrentes", field |-> "concorrentes"],
      [key |-> "cliente_ideal", field |-> "cliente_ideal"],
      [key |-> "diferencial", field |-> "diferencial"],
      [key |-> "margem_lucro", field |-> "margem_lucro"],
      [key |-> "ticket_medio", field |-> "ticket_medio"],
      [key |-> "principal_gargalo", field |-> "principal_gargalo"],
      [key |-> "origem_clientes", field |-> "origem_clientes"],
      [key |-> "maior_objecao", field |-> "maior_objecao"],
      [key |-> "desafio", field |-> ""],
      [key |-> "objetivo", field |-> ""]>>

\* The keyword_map entries whose keyword occurs in the first question of
\* FIELD_PROMPTS_ALL[f] (with the researchable suffix where the code adds it).
PromptAsks(f) ==
    CASE f \in {"concorrentes", "diferencial", "principal_gargalo", "margem_lucro"} -> {f}
      [] f = "dificuldades" -> {"desafio"}
      [] f = "origem_clientes" -> {"cliente_ideal"}
      [] f = "maior_objecao" -> {"cliente_ideal", "maior_objecao"}
      [] OTHER -> {}

\* FIELD_PROMPTS_ALL[f] holds a question mark.
PromptHasQuestion(f) == f # "cliente_ideal"

\* FIELD_PROMPTS_ALL[f], with its suffix, ends with a question mark.
PromptEndsQuestion(f) == f \notin RESEARCHABLE_FIELDS

\* The keyword_map keywords that occur in the user's message.
keyword_words ==
    [w \in {"concorrentes", "concorrente"} |-> "concorrentes"]
    @@ [w \in {"cliente", "clientes", "público"} |-> "cliente_ideal"]
    @@ [w \in {"diferencial"} |-> "diferencial"]
    @@ [w \in {"margem", "lucro"} |-> "margem_lucro"]
    @@ [w \in {"ticket", "preço"} |-> "ticket_medio"]
    @@ [w \in {"gargalo", "limitação"} |-> "principal_gargalo"]
    @@ [w \in {"origem"} |-> "origem_clientes"]
    @@ [w \in {"objeção"} |-> "maior_objecao"]
    @@ [w \in {"desafio", "desafios"} |-> "desafio"]
    @@ [w \in {"objetivo", "objetivos"} |-> "objetivo"]

MessageAsks(msg_lower) ==
    {keyword_words[w] : w \in SeqToSet(msg_lower) \cap DOMAIN keyword_words}

RECURSIVE FirstKeyword(_, _)
\* The first keyword_map entry that matches, as a sequence of at most one entry.
FirstKeyword(entries, asked) ==
    IF entries = <<>> THEN <<>>
    ELSE IF Head(entries).key \in asked THEN <<Head(entries)>>
    ELSE FirstKeyword(Tail(entries), asked)

RECURSIVE FirstResearchable(_, _, _)
\* The scan-ahead loop: first empty researchable field not yet researched.
FirstResearchable(order, p, already_researched) ==
    IF order = <<>> THEN ""
    ELSE IF /\ ~Truthy(p[Head(order)])
            /\ Head(order) \in RESEARCHABLE_FIELDS
            /\ ~InSeq(Head(order), already_researched)
         THEN Head(order)
    ELSE FirstResearchable(Tail(order), p, already_researched)

no_result == [should_search |-> FALSE, purpose |-> "", field_being_researched |-> ""]

\* The field the "user doesn't know" branch settles on ("" when none).
ResearchField(messages, p, already_researched) ==
    LET next_collectible == FirstMissing(ALL_COLLECTIBLE_FIELDS_ORDER, p, {"investimento_marketing"})
        field_from_context == get_field_from_context(messages)
    IN IF /\ next_collectible # ""
          /\ next_collectible \in RESEARCHABLE_FIELDS
          /\ ~InSeq(next_collectible, already_researched)
       THEN next_collectible
       ELSE IF /\ field_from_context # ""
               /\ field_from_context \in RESEARCHABLE_FIELDS
               /\ ~InSeq(field_from_context, already_researched)
            THEN field_from_context
       ELSE FirstResearchable(ALL_COLLECTIBLE_FIELDS_ORDER, p, already_researched)

\* should_search_proactively; every search it asks for has a non-empty query, so
\* the query is left out and the purpose names the branch.
should_search_proactively(user_message, messages, p, already_researched) ==
    LET msg_lower == Lower(user_message)
        past_searches == PastSearches(messages)
    IN IF UserDoesntKnow(user_message)
       THEN LET field == ResearchField(messages, p, already_researched)
                hit == FirstKeyword(keyword_map,
                                    RecentAsks(LastN(messages, 3)) \cup MessageAsks(msg_lower))
            IN IF field # ""
               THEN [should_search |-> TRUE, purpose |-> "field",
                     field_being_researched |-> field]
               ELSE IF hit # <<>>
                    THEN [should_search |-> TRUE, purpose |-> "keyword",
                          field_being_researched |-> hit[1].field]
               ELSE [should_search |-> TRUE, purpose |-> "geral",
                     field_being_researched |-> ""]
       ELSE IF MentionsProblem(user_message) /\ past_searches < 5
            THEN [should_search |-> TRUE, purpose |-> "problem",
                  field_being_researched |-> ""]
       ELSE IF /\ Len(messages) <= 4
               /\ Truthy(p["segmento"])
               /\ Truthy(p["localizacao"])
               /\ past_searches = 0
            THEN [should_search |-> TRUE, purpose |-> "inicial",
                  field_being_researched |-> ""]
       ELSE no_result

\* [w for w in _normalize(s).split() if len(w) > n]
LongWords(s, n) ==
    LET ws == Normalize(s)
    IN {ws[i] : i \in {j \in 1..Len(ws) : Len(ws[j]) > n}}

_check_search_relevance(search_text, segmento, tipo_produto) ==
    IF ~Truthy(search_text) \/ ~Truthy(segmento) THEN TRUE
    ELSE LET text_lower == SeqToSet(Normalize(search_text))
             check_words == LongWords(segmento, 3) \cup LongWords(tipo_produto, 3)
         IN IF check_words = {} THEN TRUE
            ELSE check_words \cap text_lower # {}

\* ------------------------------------------- _infer_fields_from_context
\* a word of `firsts` with a word of `seconds` somewhere after it (regex a.*b).
Follows(u, firsts, seconds) ==
    \E i \in 1..Len(u) : \E j \in i..Len(u) : u[i] \in firsts /\ u[j] \in seconds

\* The words of the vocabulary the stems of prod_patterns / serv_patterns match.
fabric_words == {"fabrico", "fabricamos", "fabrica"}

vend_words == {"vendo", "vende", "vendemos"}

product_words ==
    {"brownie", "brownies", "bolo", "bolos", "doce", "doces", "roupa", "roupas",
     "produto", "produtos", "mercadoria", "artesanato", "comida", "chocolate"}

service_words ==
    {"consultoria", "design", "fotografia", "advogado", "contador", "coach",
     "personal", "aula", "aulas", "curso", "cursos", "mentoria", "faxina", "limpeza",
     "manutenção"}

InferTipoProduto(text) ==
    IF SeqToSet(text) \cap fabric_words # {} \/ Follows(text, vend_words, product_words)
    THEN <<"produto">>
    ELSE IF SeqToSet(text) \cap service_words # {} \/ Follows(text, {"presto"}, {"serviço", "servico"})
         THEN <<"serviço">>
    ELSE IF GapMatch(text, {"vendo", "faço", "ofereço"}, {<<"produto">>, <<"mercadoria">>}, 15)
         THEN <<"produto">>
    ELSE Null

InferModeloOperacional(text) ==
    IF \/ SeqToSet(text) \cap (fabric_words \cup {"produzo", "cozinho"}) # {}
       \/ GapMatch(text, {"compro"}, {<<"ingrediente">>, <<"ingredientes">>}, 25)
       \/ ContainsAny(text, {<<"faço", "eu", "mesmo">>, <<"faco", "eu", "mesmo">>,
                             <<"produção", "própria">>})
       \/ Follows(text, {"faço", "faco"}, {"caseiro", "caseiros"})
    THEN <<"fabricação", "própria">>
    ELSE IF \/ SeqToSet(text) \cap {"revendo", "revenda", "importo", "atacado"} # {}
            \/ GapMatch(text, {"compro"}, {<<"pronto">>}, 15)
         THEN <<"revenda">>
    ELSE IF \/ SeqToSet(text) \cap {"encomenda", "encomendas"} # {}
            \/ Follows(text, {"primeiro"}, {"paga"})
            \/ Follows(text, {"depois"}, {"faço", "faco"})
         THEN <<"sob", "encomenda">>
    ELSE Null

\* ", ".join(canais): every phrase but the last carries the comma on its last word.
RECURSIVE JoinComma(_)
JoinComma(phrases) ==
    IF phrases = <<>> THEN <<>>
    ELSE IF Len(phrases) = 1 THEN Head(phrases)
    ELSE LET h == Head(phrases)
         IN SubSeq(h, 1, Len(h) - 1) \o <<h[Len(h)] \o ",">> \o JoinComma(Tail(phrases))

InferCanaisVenda(text) ==
    LET ws == SeqToSet(text)
    IN JoinComma(
        (IF ws \cap {"instagram", "insta"} # {} THEN << <<"Instagram">> >> ELSE <<>>)
        \o (IF ContainsPhrase(text, <<"na", "rua">>) \/ "ambulante" \in ws
               \/ Follows(text, {"vendo"}, {"rua"})
            THEN << <<"venda", "na", "rua">> >> ELSE <<>>)
        \o (IF ws \cap {"whatsapp", "wpp", "zap"} # {} THEN << <<"WhatsApp">> >> ELSE <<>>)
        \o (IF ContainsAny(text, {<<"loja", "física">>, <<"loja", "fisica">>, <<"minha", "loja">>})
               \/ Follows(text, {"ponto"}, {"comercial"})
            THEN << <<"loja", "física">> >> ELSE <<>>)
        \o (IF ws \cap {"site", "ecommerce", "e-commerce", "shopee", "shopify"} # {}
               \/ ContainsAny(text, {<<"loja", "virtual">>, <<"mercado", "livre">>})
            THEN << <<"online">> >> ELSE <<>>)
        \o (IF ws \cap {"ifood", "rappi", "delivery"} # {} \/ ContainsPhrase(text, <<"uber", "eats">>)
            THEN << <<"delivery">> >> ELSE <<>>))

solo_infer_phrases ==
    {<<"trabalho", "sozinho">>, <<"só", "eu">>, <<"so", "eu">>, <<"eu", "mesmo">>,
     <<"eu", "mesma">>, <<"empreendedor", "solo">>, <<"somente", "eu">>,
     <<"apenas", "eu">>, <<"toco", "sozinho">>}

InferNumFuncionarios(text) ==
    IF ContainsAny(text, solo_infer_phrases) THEN <<"sozinho">> ELSE Null

\* The tokens of the vocabulary that are URLs, and those on SOCIAL_DOMAINS.
social_urls == {"instagram.com/acme"}

site_urls == {"acme.com.br"} \cup social_urls

IsSocial(value) == SeqToSet(Lower(value)) \cap
                       {"instagram.com/acme", "https://instagram.com/acme"} # {}

RECURSIVE FirstWordIn(_, _)
FirstWordIn(text, set) ==
    IF text = <<>> THEN ""
    ELSE IF Head(text) \in set THEN Head(text)
    ELSE FirstWordIn(Tail(text), set)

InferSiteUrl(text) ==
    LET url == FirstWordIn(text, site_urls)
    IN IF url = "" \/ url \in social_urls THEN Null ELSE <<"https://" \o url>>

\* What _infer_fields_from_context returns for profile p: a value for every field it
\* infers, Null for the rest.  (Handles, phone numbers, e-mail addresses and map links
\* are tokens the vocabulary does not hold, so those branches infer nothing.)
InferredFields(messages, p) ==
    LET all_user_text == Lower(UserText(messages))
    IN [f \in FieldNames |->
         IF Truthy(p[f]) THEN Null
         ELSE CASE f = "tipo_produto" -> InferTipoProduto(all_user_text)
                [] f = "modelo_operacional" -> InferModeloOperacional(all_user_text)
                [] f = "canais_venda" -> InferCanaisVenda(all_user_text)
                [] f = "num_funcionarios" -> InferNumFuncionarios(all_user_text)
                [] f = "site_url" -> InferSiteUrl(all_user_text)
                [] OTHER -> Null]

\* The side effect of _infer_fields_from_context on the profile it is given:
\* a stored site_url on a social domain is popped.
InferPop(p) ==
    IF Truthy(p["site_url"]) /\ IsSocial(p["site_url"])
    THEN [p EXCEPT !["site_url"] = Null]
    ELSE p

\* for f, v in inferred.items(): if not p.get(f): p[f] = v
ApplyInferred(p, inferred) ==
    [f \in FieldNames |-> IF ~Truthy(p[f]) /\ Truthy(inferred[f]) THEN inferred[f] ELSE p[f]]

\* The profile after _infer_fields_from_context and the loop that applies it.
_infer_fields_from_context(messages, p) == ApplyInferred(InferPop(p), InferredFields(messages, p))

\* ------------------------------------------------------- _extract_number
\* The numeric tokens of the vocabulary: the integer \d+ reads from the token, and
\* what pattern 2, \d{1,3}(?:[.,]\d{3})*(?:[.,]\d{1,2})?, reads from it (it stops
\* after three digits when no separator follows).
DigitsValue ==
    [w \in {"5"} |-> 5] @@ [w \in {"500"} |-> 500] @@ [w \in {"5000"} |-> 5000]
    @@ [w \in {"50000"} |-> 50000]

PlainValue ==
    [w \in {"5"} |-> 5] @@ [w \in {"500", "5000", "50000"} |-> 500]
    @@ [w \in {"5.000"} |-> 5000] @@ [w \in {"50.000"} |-> 50000]

NoNumber == -1

\* First i with text[i] a \d+ token and text[i+1] in `units`, or 0.
UnitAt(text, units) ==
    LET hits == {i \in 1..(Len(text) - 1) : text[i] \in DOMAIN DigitsValue /\ text[i + 1] \in units}
    IN IF hits = {} THEN 0 ELSE CHOOSE i \in hits : \A j \in hits : i <= j

PlainAt(text) ==
    LET hits == {i \in 1..Len(text) : text[i] \in DOMAIN PlainValue}
    IN IF hits = {} THEN 0 ELSE CHOOSE i \in hits : \A j \in hits : i <= j

\* _extract_number(text): NoNumber stands for None.
_extract_number(text) ==
    LET text_lower == Lower(text)
        millions == UnitAt(text_lower, {"milhão", "milhões", "milhoes", "milhao"})
        thousands == UnitAt(text_lower, {"mil", "k"})
        plain == PlainAt(text_lower)
    IN IF text = <<>> THEN NoNumber
       ELSE IF millions # 0 THEN DigitsValue[text_lower[millions]] * 1000000
       ELSE IF thousands # 0 THEN DigitsValue[text_lower[thousands]] * 1000
       ELSE IF plain # 0 THEN PlainValue[text_lower[plain]]
       ELSE NoNumber

\* ------------------------------------------------------- _value_has_basis
monetary_fields ==
    {"capital_disponivel", "faturamento_mensal", "ticket_medio", "investimento_marketing"}

\* lenient_fields whose pattern list is None.
lenient_fields ==
    {"localizacao", "nome_negocio", "segmento", "dificuldades", "objetivos",
     "canais_venda", "investimento_marketing", "cliente_ideal", "capital_disponivel",
     "num_funcionarios"}

detected_fields ==
    {"modelo_operacional", "capital_disponivel", "principal_gargalo", "margem_lucro",
     "maior_objecao", "num_funcionarios"}

\* The sliding windows of 1..3 words over the user text.
Windows(user_words) ==
    {SubSeq(user_words, i, j) :
        i \in 1..Len(user_words), j \in 1..Len(user_words)} \ {<<>>}

\* The comparison made on single words only, without the windows of 2 and 3 words.
MonetaryBasisOneWord(value, user_norm) ==
    LET val_number == _extract_number(value)
    IN /\ val_number # NoNumber
       /\ \E i \in 1..Len(user_norm) :
            LET chunk_number == _extract_number(<<user_norm[i]>>)
            IN /\ chunk_number # NoNumber
               /\ 10 * Min2(val_number, chunk_number) >= 9 * Max2(val_number, chunk_number)

MonetaryBasis(value, user_norm) ==
    LET val_number == _extract_number(value)
    IN /\ val_number # NoNumber
       /\ \E chunk \in {w \in Windows(user_norm) : Len(w) <= 3} :
            LET chunk_number == _extract_number(chunk)
            IN /\ chunk_number # NoNumber
               /\ \/ val_number = chunk_number
                  \/ /\ Max2(val_number, chunk_number) > 0
                     /\ 10 * Min2(val_number, chunk_number) >= 9 * Max2(val_number, chunk_number)

LenientBasis(value, user_norm) ==
    LET val_norm == Normalize(value)
        val_words == FilterSeq(val_norm, {w \in SeqToSet(val_norm) : Len(w) > 1})
        user_words == SeqToSet(user_norm)
    IN \/ \E i \in 1..Len(val_words) : val_words[i] \in user_words
       \/ ContainsPhrase(user_norm, val_norm)
       \/ \E w \in user_words : Len(w) > 2 /\ InSeq(w, val_norm)
       \/ /\ Len(val_words) = 1
          /\ \E user_word \in user_words :
                Len(user_word) > 3 /\ Similar(val_words[1], user_word, 70)
       \/ Len(user_norm) <= 5

\* detection_patterns: the phrases of the vocabulary each pattern matches.
detection_patterns ==
    [v \in {<<"sob", "encomenda">>} |-> {<<"encomenda">>, <<"sem", "estoque">>}]
    @@ [v \in {<<"dropshipping">>} |-> {<<"dropshipping">>, <<"sem", "estoque">>}]
    @@ [v \in {<<"estoque", "proprio">>} |-> {<<"estoque">>, <<"guardo">>}]
    @@ [v \in {<<"consignacao">>} |-> {<<"parceiro">>, <<"revendo">>}]
    @@ [v \in {<<"credibilidade">>} |-> {<<"credibilidade">>, <<"confianca">>, <<"golpe">>, <<"medo">>}]
    @@ [v \in {<<"tempo">>} |-> {<<"sozinho">>, <<"sem", "tempo">>}]
    @@ [v \in {<<"capital">>} |-> {<<"capital">>, <<"dinheiro">>, <<"investir">>}]

DetectedBasis(value, user_norm) ==
    LET val_norm == Normalize(value)
        concepts == LongWords(Lower(value), 3)
    IN \/ /\ val_norm \in DOMAIN detection_patterns
          /\ ContainsAny(user_norm, detection_patterns[val_norm])
       \/ IF concepts = {} THEN TRUE ELSE concepts \cap SeqToSet(user_norm) # {}

\* val_norm without "r$" and spaces: the words that are left.
CleanWords(val_norm) == FilterSeq(val_norm, SeqToSet(val_norm) \ {"r$"})

\* clean_val.isdigit(): one numeric token is left once "r$" and separators go.
IsDigitValue(val_norm) ==
    Len(CleanWords(val_norm)) = 1 /\ CleanWords(val_norm)[1] \in DOMAIN PlainValue

\* int(clean_val), and the thousands variants "N mil", "N k", "N.000" in the text.
NumericBasis(val_norm, user_norm) ==
    LET token == CleanWords(val_norm)[1]
        num_val == IF token \in DOMAIN DigitsValue THEN DigitsValue[token]
                   ELSE PlainValue[token]
    IN \/ ContainsPhrase(user_norm, val_norm)
       \/ \E i \in 1..Len(user_norm) :
             user_norm[i] \in DOMAIN DigitsValue /\ DigitsValue[user_norm[i]] = num_val
       \/ /\ num_val >= 1000
          /\ num_val % 1000 = 0
          /\ \/ \E i \in 1..(Len(user_norm) - 1) :
                   /\ user_norm[i] \in DOMAIN DigitsValue
                   /\ DigitsValue[user_norm[i]] = num_val \div 1000
                   /\ user_norm[i + 1] \in {"mil", "k"}
             \/ \E i \in 1..Len(user_norm) :
                   /\ user_norm[i] \in DOMAIN PlainValue \ DOMAIN DigitsValue
                   /\ PlainValue[user_norm[i]] = num_val

\* len(val_norm) in characters.
CharLen(ws) == IF ws = <<>> THEN 0 ELSE SumLen(ws) - 1

TextBasis(value, user_norm) ==
    LET val_norm == Normalize(value)
        user_words == SeqToSet(user_norm)
    IN IF CharLen(val_norm) <= 15
       THEN LET words == LongWords(Lower(value), 2)
            IN IF words = {} THEN ContainsPhrase(user_norm, val_norm)
               ELSE words \cap user_words # {}
       ELSE LET words == LongWords(Lower(value), 3)
            IN IF words = {} THEN TRUE
               ELSE Cardinality(words \cap user_words) >= Min2(2, Cardinality(words))

\* _value_has_basis(field, value, user_lower)
_value_has_basis(field, value, user_lower) ==
    LET user_norm == Normalize(user_lower)
        val_norm == Normalize(value)
    IN IF field \in monetary_fields /\ MonetaryBasis(value, user_norm) THEN TRUE
       ELSE IF field \in lenient_fields THEN LenientBasis(value, user_norm)
       ELSE IF field = "modelo"
            THEN \/ SeqToSet(user_norm) \cap {"b2c", "b2b", "misto", "d2c"} # {}
                 \/ ContainsPhrase(user_norm, val_norm)
       ELSE IF field \in detected_fields THEN DetectedBasis(value, user_norm)
       ELSE IF IsDigitValue(val_norm) THEN NumericBasis(val_norm, user_norm)
       ELSE TextBasis(value, user_norm)

\* --------------------------------------------------------- validate_extraction
\* The list with a free-text value let in.
modelo_tokens_open == {<<"B2B">>, <<"B2C">>, <<"D2C">>, <<"MISTO">>, <<"VAREJO">>}

\* The list cut down to its first token.
modelo_tokens_short == {<<"B2B">>}

modelo_tokens == {<<"B2B">>, <<"B2C">>, <<"D2C">>, <<"MISTO">>}

zero_values == {<<"zero">>, <<"nada">>, <<"nenhum">>}

zero_phrases ==
    {<<"nada">>, <<"zero">>, <<"nenhum">>, <<"não", "posso">>, <<"nao", "posso">>,
     <<"sem", "capital">>, <<"sem", "dinheiro">>}

\* The validator with a field that was not proposed taken from the previous profile.
ValidatedOrPrevious(field, value, user_lower, previous_profile) ==
    IF ~Truthy(value) THEN previous_profile[field]
    ELSE IF field = "modelo"
         THEN IF Upper(value) \in modelo_tokens THEN Upper(value) ELSE Null
    ELSE IF _value_has_basis(field, value, user_lower) THEN value
    ELSE previous_profile[field]

\* The value validate_extraction puts in validated[field] for the item
\* (field, value) of updated_profile; Null when it puts none.
ValidatedValue(field, value, user_lower, previous_profile) ==
    IF ~Truthy(value) THEN Null
    ELSE IF field = "modelo"
         THEN IF Upper(value) \in modelo_tokens THEN Upper(value) ELSE Null
    ELSE IF field = "segmento" /\ Upper(value) \in modelo_tokens THEN Null
    ELSE IF field = "site_url" /\ IsSocial(value) THEN Null
    ELSE IF /\ field = "capital_disponivel"
            /\ Lower(value) \in zero_values
            /\ ContainsAny(user_lower, zero_phrases)
         THEN value
    ELSE IF Truthy(previous_profile[field])
         THEN IF value # previous_profile[field] /\ _value_has_basis(field, value, user_lower)
              THEN value
              ELSE previous_profile[field]
    ELSE IF _value_has_basis(field, value, user_lower) THEN value
    ELSE Null

validate_extraction(updated_profile, all_user_text, previous_profile) ==
    LET user_lower == Lower(all_user_text)
    IN [f \in FieldNames |->
          ValidatedValue(f, updated_profile[f], user_lower, previous_profile)]

\* ------------------------------------------------------------- replies
\* A reply is kept as what the code and the next turn read from it.
\*   kind      "none" (None), "llm" (the model's text), "forced" (the suggestion
\*             template), "opinion", "failed" (the search-failed acknowledgement),
\*             "prompt", "finish", "alldone", "greeting", "error"
\*   appendix  what run_chat appended to an existing reply
\*   about     the field the forced / failed text or the appended prompt names
NoReply ==
    [kind |-> "none", mentions |-> {}, asks |-> {}, question |-> FALSE,
     endsq |-> FALSE, icon |-> FALSE, generic |-> FALSE, echo |-> FALSE,
     leak |-> FALSE, appendix |-> "none", about |-> "", rest |-> "none"]

\* A long statement of the model, no question in it.
LLMPlain == [NoReply EXCEPT !.kind = "llm"]

\* The model asks about field g and ends on the question.
LLMAsk(g) ==
    [NoReply EXCEPT !.kind = "llm", !.mentions = PromptMentions(g),
                    !.asks = PromptAsks(g), !.question = TRUE, !.endsq = TRUE]

\* "Vou pesquisar": one of the skip_phrases, shorter than 40 characters.
LLMShort == [NoReply EXCEPT !.kind = "llm", !.generic = TRUE]

\* The model repeats the user's message in a single paragraph.
LLMEcho == [NoReply EXCEPT !.kind = "llm", !.echo = TRUE]

\* The model repeats the user's message in a first paragraph and begins the
\* second paragraph with it again.
LLMEchoTwice == [NoReply EXCEPT !.kind = "llm", !.echo = TRUE, !.rest = "echo"]

\* The model returns the placeholder of its own prompt.
LLMLeak == [NoReply EXCEPT !.kind = "llm", !.leak = TRUE]

\* ------------------------------------------------- the pending resolution
Task(field, origem) == [field |-> field, origem |-> origem]

\* The researched set left as it was.
KeepResearched(fields_researched, f) == fields_researched

\* if f not in fields_researched: fields_researched.append(f)
AddResearched(fields_researched, f) ==
    IF InSeq(f, fields_researched) THEN fields_researched
    ELSE Append(fields_researched, f)

\* run_chat, line 1247, with the test on the response added.
PendingGuardSkipsOther(research_pending, user_message) ==
    /\ research_pending # <<>>
    /\ Truthy(user_message)
    /\ (detect_research_response(user_message) # "other" \/ is_still_dont_know(user_message))

\* if research_pending and user_message:
PendingGuard(research_pending, user_message) ==
    research_pending # <<>> /\ Truthy(user_message)

\* user_response == "confirm" or is_still_dont_know
ConfirmOutcome(c) ==
    LET pending_field == c.pending[1].field
        pending_value == c.pending[1].suggested_value
    IN [c EXCEPT !.ep[pending_field] = pending_value,
                 !.tasks = Append(@, Task(pending_field, "pesquisa_assistida")),
                 !.researched = AddResearched(@, pending_field),
                 !.pending = <<>>,
                 !.just_resolved = TRUE,
                 !.resolution = "confirm"]

\* user_response == "reject"
RejectOutcome(c) ==
    LET pending_field == c.pending[1].field
    IN [c EXCEPT !.tasks = Append(@, Task(pending_field, "pesquisa_rejeitada")),
                 !.researched = AddResearched(@, pending_field),
                 !.pending = <<>>,
                 !.just_resolved = TRUE,
                 !.resolution = "reject"]

\* The specific answer stored, the suggestion left pending.
OverrideKeepsPending(c) ==
    LET pending_field == c.pending[1].field
    IN [c EXCEPT !.ep[pending_field] = c.user_message,
                 !.researched = AddResearched(@, pending_field),
                 !.just_resolved = TRUE,
                 !.resolution = "override"]

\* else: the user gave a specific answer
OverrideOutcome(c) ==
    LET pending_field == c.pending[1].field
    IN [c EXCEPT !.ep[pending_field] = c.user_message,
                 !.researched = AddResearched(@, pending_field),
                 !.pending = <<>>,
                 !.just_resolved = TRUE,
                 !.resolution = "override"]

ResolvePending(c) ==
    IF PendingGuard(c.pending, c.user_message)
    THEN LET user_response == detect_research_response(c.user_message)
         IN IF user_response = "confirm" \/ is_still_dont_know(c.user_message)
            THEN ConfirmOutcome(c)
            ELSE IF user_response = "reject" THEN RejectOutcome(c)
            ELSE OverrideOutcome(c)
    ELSE c

\* ------------------------------------------------ search decision and search
EarlyInference(c) ==
    [c EXCEPT !.ep = _infer_fields_from_context(c.messages, c.ep)]

SearchDecision(c) ==
    LET search_decision ==
            IF c.just_resolved THEN no_result
            ELSE should_search_proactively(c.user_message, c.messages, c.ep, c.researched)
    IN [c EXCEPT !.decision = search_decision,
                 !.field_being_researched = search_decision.field_being_researched,
                 !.user_said_dont_know =
                     search_decision.should_search /\ SaidDontKnow(c.user_message)]

\* What search_internet returns: no result at all, or a text.
NoResults == <<"Nenhum", "resultado", "encontrado.">>

SearchStep(c, search_text) ==
    IF ~c.decision.should_search THEN c
    ELSE IF search_text = NoResults
         THEN [c EXCEPT !.searched = TRUE, !.outcome = "no_results",
                        !.field_being_researched_failed = c.field_being_researched]
    ELSE IF /\ c.field_being_researched # ""
            /\ ~_check_search_relevance(search_text, c.ep["segmento"], c.ep["tipo_produto"])
         THEN [c EXCEPT !.searched = TRUE, !.outcome = "irrelevant",
                        !.tasks = Append(@, Task(c.field_being_researched, "busca_irrelevante")),
                        !.researched = AddResearched(@, c.field_being_researched),
                        !.field_being_researched_failed = c.field_being_researched,
                        !.field_being_researched = ""]
    ELSE [c EXCEPT !.searched = TRUE, !.search_performed = TRUE, !.outcome = "results"]

\* --------------------------------------------------- the model's output
\* What generate_reply hands back to run_chat, by shape:
\*   "raise"  generate_reply raised: reply None, updated_profile a copy of the profile
\*   "alias"  no usable updated_profile in the output (not JSON, or the key is
\*            missing): updated_profile IS the extracted_profile object
\*   "null"   JSON with "updated_profile": null
\*   "dict"   JSON with an updated_profile object
\*   "tasks"  JSON whose updated_profile holds one key, "_research_tasks", with the
\*            list [ProposedItem]
GenerateReply(c, llm) ==
    [c EXCEPT !.shape = llm.shape,
              !.reply = IF llm.shape = "raise" THEN NoReply ELSE llm.reply,
              !.updated = IF llm.shape = "dict" THEN llm.update
                          ELSE IF llm.shape \in {"null", "tasks"} THEN EmptyProfile
                          ELSE c.ep,
              !.alias = (llm.shape = "alias"),
              !.has_update = (llm.shape # "null"),
              !.crashed = /\ llm.shape = "null"
                          /\ c.field_being_researched # ""
                          /\ c.search_performed]

\* Capture of the research suggestion before validation; with an aliased
\* updated_profile the write of None lands in extracted_profile as well.
CaptureSuggestion(c) ==
    LET f == c.field_being_researched
    IN IF f # "" /\ c.search_performed /\ Truthy(c.updated[f])
       THEN [c EXCEPT !.suggestion = c.updated[f],
                      !.updated[f] = Null,
                      !.ep[f] = IF c.alias THEN Null ELSE @]
       ELSE c

\* Null / leaked replies, and the echo filter on a reply that starts with the
\* user's words: reply.split("\n\n", 1)[1] when there is a second paragraph (rest
\* says whether that paragraph starts with the user's words as well), None otherwise.
FilterReply(c) ==
    IF \/ c.reply.kind = "none"
       \/ c.reply.leak
    THEN [c EXCEPT !.reply = NoReply]
    ELSE IF c.reply.echo /\ CharLen(c.user_message) > 10
         THEN IF c.reply.rest = "none" THEN [c EXCEPT !.reply = NoReply]
              ELSE [c EXCEPT !.reply.echo = (c.reply.rest = "echo"), !.reply.rest = "none"]
    ELSE c

\* user_message.split(",") on the comma token.
CommaAt(u) ==
    LET hits == {i \in 1..Len(u) : u[i] = ","}
    IN IF hits = {} THEN 0 ELSE CHOOSE i \in hits : \A j \in hits : i <= j

FirstPart(u) == SubSeq(u, 1, CommaAt(u) - 1)

SecondPart(u) ==
    LET rest == SubSeq(u, CommaAt(u) + 1, Len(u))
    IN IF CommaAt(rest) = 0 THEN rest ELSE FirstPart(rest)

\* The segmento -> modelo move and the comma split, on one profile object.
FixSegmentoModelo(p, user_message) ==
    LET moved == IF Truthy(p["segmento"]) /\ Upper(p["segmento"]) \in modelo_tokens
                 THEN [p EXCEPT !["modelo"] = Upper(p["segmento"]), !["segmento"] = Null]
                 ELSE p
        seg_candidate == FilterSeq(SecondPart(user_message),
                                   SeqToSet(SecondPart(user_message))
                                       \ {"B2B", "B2C", "D2C", "MISTO"})
    IN IF /\ Truthy(moved["modelo"])
          /\ ~Truthy(moved["segmento"])
          /\ CommaAt(user_message) # 0
       THEN [moved EXCEPT
               !["nome_negocio"] = IF Truthy(@) THEN @ ELSE FirstPart(user_message),
               !["segmento"] = IF Truthy(seg_candidate) THEN seg_candidate ELSE @]
       ELSE moved

SegmentoModeloStep(c) ==
    IF ~c.has_update THEN c
    ELSE [c EXCEPT !.updated = FixSegmentoModelo(c.updated, c.user_message),
                   !.ep = IF c.alias THEN FixSegmentoModelo(c.ep, c.user_message) ELSE @]

\* all_user_text = user_message + " " + every user message of the history
AllUserText(c) == c.user_message \o UserText(c.messages)

\* The string a "tasks" output carries in its list, and the list as it sits in a
\* profile (an item without field or origin).
ProposedItem == <<"brownies">>

ProposedTasks == <<Task("", "")>>

\* validate_extraction on the key "_research_tasks": a list is kept when one of
\* its strings occurs in the user's text, whatever the previous profile holds
\* under the key; otherwise the previous list stays (1509-1518, 1603-1605).
ValidateStep(c) ==
    [c EXCEPT !.cleaned = IF c.has_update
                          THEN validate_extraction(c.updated, AllUserText(c), c.ep)
                          ELSE c.ep,
              !.tasks = IF /\ c.shape = "tasks"
                           /\ ContainsPhrase(Normalize(Lower(AllUserText(c))),
                                             Normalize(ProposedItem))
                        THEN ProposedTasks ELSE @]

\* "Never lose previously validated data": both preservation loops.
Preserve(cleaned, extracted_profile) ==
    [f \in FieldNames |->
        IF Truthy(extracted_profile[f]) /\ ~Truthy(cleaned[f])
        THEN extracted_profile[f] ELSE cleaned[f]]

PreserveStep(c) == [c EXCEPT !.cleaned = Preserve(c.cleaned, c.ep)]

\* investimento_marketing <-> capital_disponivel
SyncCapital(p) ==
    IF Truthy(p["investimento_marketing"]) /\ ~Truthy(p["capital_disponivel"])
    THEN [p EXCEPT !["capital_disponivel"] = p["investimento_marketing"]]
    ELSE IF Truthy(p["capital_disponivel"]) /\ ~Truthy(p["investimento_marketing"])
         THEN [p EXCEPT !["investimento_marketing"] = p["capital_disponivel"]]
    ELSE p

solo_patterns ==
    {<<"trabalho", "sozinho">>, <<"sou", "só", "eu">>, <<"sou", "eu", "mesmo">>,
     <<"somente", "eu">>, <<"só", "eu">>, <<"apenas", "eu">>, <<"trabalho", "só">>,
     <<"empreendedor", "solo">>}

\* num_funcionarios from the solo phrases (the assistant's texts of the
\* conversation hold none of them).
SoloInference(p, user_message, messages) ==
    IF /\ ~Truthy(p["num_funcionarios"])
       /\ ContainsAny(Lower(user_message \o UserText(messages)), solo_patterns)
    THEN [p EXCEPT !["num_funcionarios"] = <<"sozinho">>]
    ELSE p

InferenceStep(c) ==
    [c EXCEPT !.cleaned =
        _infer_fields_from_context(c.messages,
            SoloInference(SyncCapital(c.cleaned), c.user_message, c.messages))]

\* The reply run_chat builds from the suggestion.
ForcedReply(field) ==
    [NoReply EXCEPT !.kind = "forced", !.mentions = LabelMentions(field),
                    !.question = TRUE, !.endsq = TRUE, !.about = field]

Pending(field, value) == <<[field |-> field, suggested_value |-> value]>>

\* Set _research_pending when a field-specific search produced a suggestion.
SetPendingStep(c) ==
    LET f == c.field_being_researched
    IN IF Truthy(c.suggestion) /\ f # "" /\ ~Truthy(c.ep[f])
       THEN [c EXCEPT !.pending = Pending(f, c.suggestion),
                      !.cleaned[f] = Null,
                      !.created = TRUE,
                      !.reply = IF (c.reply.kind = "none" \/ c.reply.generic)
                                   /\ c.suggestion # <<"null">>
                                THEN ForcedReply(f) ELSE @]
       ELSE c

\* --------------------------------------------- readiness and reply appendix
\* FIELD_PROMPTS_ALL[f], with the research offer where run_chat adds it.
PromptReply(f, offer) ==
    [NoReply EXCEPT !.kind = "prompt", !.mentions = PromptMentions(f),
                    !.asks = PromptAsks(f), !.question = PromptHasQuestion(f),
                    !.endsq = PromptHasQuestion(f) /\ ~offer, !.about = f]

\* reply += "\n\n" + text
AppendTo(reply, text, appendix) ==
    [reply EXCEPT !.appendix = appendix,
                  !.about = text.about,
                  !.mentions = @ \cup text.mentions,
                  !.asks = IF reply.question THEN @ ELSE @ \cup text.asks,
                  !.question = @ \/ text.question,
                  !.endsq = text.endsq]

\* if not reply: reply = prompt / elif not reply.endswith("?"): reply += prompt
AskNext(reply, f, offer, appendix) ==
    IF reply.kind = "none" THEN PromptReply(f, offer)
    ELSE IF ~reply.endsq THEN AppendTo(reply, PromptReply(f, offer), appendix)
    ELSE reply

FinishNotice == [NoReply EXCEPT !.kind = "finish"]

AllDoneNotice == [NoReply EXCEPT !.kind = "alldone"]

OpinionReply == [NoReply EXCEPT !.kind = "opinion", !.question = TRUE, !.endsq = TRUE]

FailedReply(field) ==
    [NoReply EXCEPT !.kind = "failed", !.mentions = LabelMentions(field), !.about = field]

\* all_remaining / next_remaining
Remaining(p) == FilterSeq(MissingOf(ALL_COLLECTIBLE_FIELDS_ORDER, p),
                          FieldNames \ {"investimento_marketing"})

RequiredDone(p) == MissingOf(REQUIRED_FIELDS, p) = <<>>

\* Readiness granted from 4 priority fields on.
BaseReadyFromFour(p) == RequiredDone(p) /\ Len(CollectedOf(PRIORITY_OPTIONAL, p)) >= 4

\* required + 5 priority
BaseReady(p) == RequiredDone(p) /\ Len(CollectedOf(PRIORITY_OPTIONAL, p)) >= 5

\* The branch "user said he does not know, and nothing is pending".
FailedBranch(c) ==
    LET from_context == get_field_from_context(c.messages)
        failed_field == IF c.field_being_researched_failed # ""
                        THEN c.field_being_researched_failed ELSE from_context
        ack == IF c.reply.kind = "none" THEN FailedReply(failed_field) ELSE c.reply
        next_remaining == Remaining(c.cleaned)
        reply == IF next_remaining # <<>> /\ ~ack.endsq
                 THEN AppendTo(ack, PromptReply(next_remaining[1], FALSE), "prompt")
                 ELSE ack
    IN IF failed_field # ""
       THEN [c EXCEPT !.reply = reply,
                      !.tasks = Append(@, Task(failed_field, "busca_falhou")),
                      !.researched = AddResearched(@, failed_field),
                      !.branch = "failed"]
       ELSE [c EXCEPT !.reply = reply, !.branch = "failed"]

\* The pending branch of the appendix chain.
PendingBranch(c) ==
    LET pending_val == c.pending[1].suggested_value
        pending_fld == c.pending[1].field
        reply_is_generic == c.reply.kind = "none" \/ c.reply.generic
    IN [c EXCEPT !.branch = "pending",
                 !.reply = IF reply_is_generic /\ Truthy(pending_val)
                              /\ pending_val # <<"null">>
                           THEN ForcedReply(pending_fld)
                           ELSE IF c.reply.kind = "none" THEN OpinionReply
                           ELSE @]

AppendixStep(c) ==
    LET all_remaining == Remaining(c.cleaned)
        fields_missing == MissingOf(REQUIRED_FIELDS, c.cleaned)
    IN IF user_wants_finish(c.user_message)
       THEN [c EXCEPT !.branch = "finish",
                      !.reply = IF c.reply.kind = "none" THEN FinishNotice
                                ELSE AppendTo(c.reply, FinishNotice, "finish")]
       ELSE IF c.pending # <<>> THEN PendingBranch(c)
       ELSE IF fields_missing # <<>>
            THEN [c EXCEPT !.branch = "required",
                           !.reply = AskNext(c.reply, fields_missing[1], FALSE, "prompt")]
       ELSE IF c.user_said_dont_know THEN FailedBranch(c)
       ELSE IF all_remaining # <<>>
            THEN [c EXCEPT !.branch = "remaining",
                           !.reply = AskNext(c.reply, all_remaining[1],
                                             all_remaining[1] \in RESEARCHABLE_FIELDS,
                                             IF BaseReady(c.cleaned) THEN "enrich" ELSE "prompt")]
       ELSE [c EXCEPT !.branch = "alldone",
                      !.reply = IF c.reply.kind = "none" THEN AllDoneNotice
                                ELSE AppendTo(c.reply, AllDoneNotice, "alldone")]

\* ------------------------------------------------------------- run_chat
\* The locals of one run_chat call, as the call starts.
Context(messages, user_message, extracted_profile, research_pending, research_tasks, fields_researched) ==
    [messages |-> messages, user_message |-> user_message,
     ep |-> extracted_profile, pending |-> research_pending,
     tasks |-> research_tasks, researched |-> fields_researched,
     just_resolved |-> FALSE, resolution |-> "none",
     decision |-> no_result, field_being_researched |-> "",
     field_being_researched_failed |-> "", user_said_dont_know |-> FALSE,
     searched |-> FALSE, search_performed |-> FALSE, outcome |-> "none",
     shape |-> "none", reply |-> NoReply, updated |-> EmptyProfile, alias |-> FALSE,
     has_update |-> FALSE, crashed |-> FALSE, suggestion |-> Null,
     cleaned |-> EmptyProfile, created |-> FALSE, branch |-> "none"]

\* run_chat up to the search (1247-1403): pending resolution, early inference,
\* search decision and search.
SearchStage(c0, search_text) ==
    SearchStep(SearchDecision(EarlyInference(ResolvePending(c0))), search_text)

\* run_chat from the completion to the reply appendix (1405-1735); a call that
\* raises stops at the completion.
ReplyStage(c1, llm) ==
    LET g == GenerateReply(c1, llm)
    IN IF g.crashed THEN g
       ELSE AppendixStep(SetPendingStep(InferenceStep(PreserveStep(ValidateStep(
                SegmentoModeloStep(FilterReply(CaptureSuggestion(g))))))))

\* run_chat from the pending resolution to the reply appendix, for a call that has
\* the credential and is not the greeting.
run_chat(messages, user_message, extracted_profile, research_pending, research_tasks, fields_researched, search_text, llm) ==
    ReplyStage(SearchStage(Context(messages, user_message, extracted_profile,
                                   research_pending, research_tasks, fields_researched),
                           search_text),
               llm)

\* ------------------------------------------------------------ environment
\* What the user may type in a turn.
Utterances ==
    {<<>>,
     <<"não", "sei">>,
     <<"me", "ajuda">>,
     <<"sim">>,
     <<"não">>,
     <<"não", "pode", "ser", "isso">>,
     <<"vendo", "brownies", "para", "jovens", "em", "campinas">>,
     <<"pode", "gerar">>,
     <<"não", "sei", "quem", "é", "meu", "cliente">>}

\* What search_internet may return.
SearchTexts ==
    {NoResults, <<"perfumaria", "ceramica">>, <<"brownies", "artesanais">>}

Proposal(f, v) == [EmptyProfile EXCEPT ![f] = v]

Output(shape, reply, update) == [shape |-> shape, reply |-> reply, update |-> update]

\* What the language model may answer.
LLMOutputs ==
    {Output("raise", NoReply, EmptyProfile),
     Output("alias", NoReply, EmptyProfile),
     Output("null", LLMPlain, EmptyProfile),
     Output("dict", LLMAsk("cliente_ideal"), Proposal("cliente_ideal", <<"jovens">>)),
     Output("dict", LLMPlain, Proposal("cliente_ideal", <<"idosos">>)),
     Output("dict", LLMShort, Proposal("cliente_ideal", <<"adultos">>)),
     Output("dict", LLMPlain, Proposal("modelo", <<"b2b">>)),
     Output("dict", LLMPlain, Proposal("margem_lucro", <<"30%">>)),
     Output("dict", NoReply, [Proposal("segmento", <<"b2c">>) EXCEPT !["modelo"] = <<"b2c">>]),
     Output("dict", LLMEchoTwice, EmptyProfile),
     Output("tasks", LLMPlain, EmptyProfile),
     Output("dict", LLMEcho, [Proposal("segmento", <<"perfumaria">>) EXCEPT !["modelo"] = <<"varejo">>])}

\* The profile of test_research_loop.py, and the question it was last asked.
TestProfile ==
    [EmptyProfile EXCEPT
        !["nome_negocio"] = <<"Troty">>,
        !["segmento"] = <<"brownies", "caseiros">>,
        !["modelo"] = <<"B2C">>,
        !["localizacao"] = <<"Indaiatuba">>,
        !["dificuldades"] = <<"poucas", "vendas">>,
        !["objetivos"] = <<"aumentar", "faturamento">>,
        !["capital_disponivel"] = <<"500">>,
        !["num_funcionarios"] = <<"eu", "e", "meu", "filho">>,
        !["canais_venda"] = <<"Instagram", "e", "na", "rua">>]

UserMessage(content) == [role |-> "user", content |-> content]

AssistantMessage(reply) == [role |-> "assistant", content |-> reply]

TestMessages == <<AssistantMessage(PromptReply("cliente_ideal", FALSE))>>

\* The same business later in its conversation: every researchable field but the
\* cliente ideal has been answered, and the assistant asks for it.
LateProfile ==
    [TestProfile EXCEPT
        !["concorrentes"] = <<"Doce", "Lar">>,
        !["diferencial"] = <<"receita", "da", "família">>,
        !["margem_lucro"] = <<"30%">>,
        !["ticket_medio"] = <<"15">>,
        !["principal_gargalo"] = <<"pouco", "tempo">>,
        !["origem_clientes"] = <<"indicação">>,
        !["maior_objecao"] = <<"preço">>]

LateMessages ==
    <<AssistantMessage(PromptReply("origem_clientes", TRUE)),
      UserMessage(<<"vendo", "brownies", "para", "jovens", "em", "campinas">>),
      AssistantMessage(PromptReply("maior_objecao", TRUE)),
      UserMessage(<<"Instagram", "e", "na", "rua">>),
      AssistantMessage(PromptReply("cliente_ideal", FALSE))>>

GreetingReply == [NoReply EXCEPT !.kind = "greeting", !.question = TRUE, !.endsq = TRUE]

ErrorReply == [NoReply EXCEPT !.kind = "error"]

\* ------------------------------------------------------------------ state
VARIABLES
    extracted_profile,   \* the registered fields of the stored profile
    research_pending,    \* _research_pending: <<>> or one record
    research_tasks,      \* _research_tasks
    fields_researched,   \* _fields_researched
    messages,            \* the conversation the frontend sends with every call
    turns,               \* user turns so far
    result,              \* what the last call was given and what it returned
    probe,               \* the last direct call of the grounding validator
    convs,               \* two conversations served by one interpreter
    alone,               \* the same two conversations, each call in a process of its own
    sys_path,            \* the interpreter's module search path
    groq                 \* one call of call_groq_single: its arguments and its position

vars == <<extracted_profile, research_pending, research_tasks, fields_researched,
          messages, turns, result, probe, convs, alone, sys_path, groq>>

Stored == [profile |-> extracted_profile, pending |-> research_pending,
           tasks |-> research_tasks, researched |-> fields_researched]

NoResult ==
    [kind |-> "init", user_message |-> <<>>, prev |-> <<>>, reply |-> NoReply,
     search_performed |-> FALSE, ready_for_analysis |-> FALSE,
     fields_collected |-> <<>>, fields_missing |-> <<>>,
     resolution |-> "none", field_searched |-> "", searched |-> FALSE,
     shape |-> "none", proposal |-> EmptyProfile, suggestion |-> Null,
     created |-> FALSE, branch |-> "none", text |-> <<>>,
     outcome |-> "none", purpose |-> ""]

\* No direct call of the validator yet.
NoProbe ==
    [call |-> "none", field |-> "", value |-> Null, text |-> Null, accepted |-> FALSE,
     validated |-> Null, given |-> EmptyProfile, inferred |-> EmptyProfile,
     left |-> EmptyProfile, proposal |-> EmptyProfile, proposal_left |-> EmptyProfile,
     returned |-> EmptyProfile]

\* No call of call_groq_single under way.
NoGroq ==
    [status |-> "idle", prefer_small |-> FALSE, max_retries |-> 0, mi |-> 0,
     attempt |-> 0, log |-> <<>>, content |-> "", error |-> ""]

\* The directory of chat_consultant.py, and the only directory that holds cli.py.
script_dir == "search_summarizer"

\* The search path of an interpreter that imported chat_consultant as a package
\* module from elsewhere.
InitPath == <<"cwd">>

Init ==
    /\ probe = NoProbe
    /\ convs = <<>>
    /\ alone = <<>>
    /\ sys_path = InitPath
    /\ groq = NoGroq
    /\ \E start \in {<<EmptyProfile, <<>> >>, <<TestProfile, TestMessages>>,
                       <<LateProfile, LateMessages>>} :
         /\ extracted_profile = start[1]
         /\ messages = start[2]
    /\ research_pending = <<>>
    /\ research_tasks = <<>>
    /\ fields_researched = <<>>
    /\ turns = 0
    /\ result = NoResult

\* The history the frontend sends: it appends the user's message, when there is
\* one, before it calls.
Sent(user_message) ==
    IF Truthy(user_message) THEN Append(messages, UserMessage(user_message))
    ELSE messages

\* The call is the greeting call.
IsGreeting(user_message) == messages = <<>> /\ ~Truthy(user_message)

\* The first call of a conversation: no history, no message, no model call.
Greeting ==
    /\ messages = <<>>
    /\ messages' = <<AssistantMessage(GreetingReply)>>
    /\ result' = [NoResult EXCEPT !.kind = "greeting", !.prev = <<Stored>>,
                                  !.reply = GreetingReply,
                                  !.fields_missing = REQUIRED_FIELDS]
    /\ UNCHANGED <<extracted_profile, research_pending, research_tasks,
                   fields_researched, turns, probe, convs, alone, sys_path, groq>>

\* A call without GROQ_API_KEY: the static error and an empty profile, which the
\* frontend stores like any other returned profile.
NoCredential ==
    /\ turns < MaxTurns
    /\ \E user_message \in Utterances :
         /\ messages' = Append(Sent(user_message), AssistantMessage(ErrorReply))
         /\ result' = [NoResult EXCEPT !.kind = "error", !.prev = <<Stored>>,
                                       !.user_message = user_message,
                                       !.reply = ErrorReply,
                                       !.fields_missing = REQUIRED_FIELDS]
    /\ extracted_profile' = EmptyProfile
    /\ research_pending' = <<>>
    /\ research_tasks' = <<>>
    /\ fields_researched' = <<>>
    /\ turns' = turns + 1
    /\ UNCHANGED <<probe, convs, alone, sys_path, groq>>

\* The call of one user turn, for every message, search result and model output.
Call(user_message, search_text, llm) ==
    run_chat(Sent(user_message), user_message,
             extracted_profile, research_pending, research_tasks, fields_researched,
             search_text, llm)

\* The locals of the call of one user turn.
Locals(user_message) ==
    Context(Sent(user_message), user_message,
            extracted_profile, research_pending, research_tasks, fields_researched)

\* The search results that can make a difference to the call: none when no search
\* is made, and relevance is only looked at for a field-specific search.
SearchTextsFor(user_message) ==
    LET c == SearchStage(Locals(user_message), NoResults)
    IN IF ~c.decision.should_search THEN {NoResults}
       ELSE IF c.decision.field_being_researched = "" THEN {NoResults, <<"brownies", "artesanais">>}
       ELSE SearchTexts

\* A turn that returns; the call is Call(user_message, search_text, llm), taken in
\* its two stages.
Turn ==
    /\ turns < MaxTurns
    /\ \E user_message \in {u \in Utterances : ~IsGreeting(u)} :
         \E search_text \in SearchTextsFor(user_message) :
         \E c1 \in {SearchStage(Locals(user_message), search_text)} :
         \E llm \in LLMOutputs :
         \E c \in {ReplyStage(c1, llm)} :
            /\ ~c.crashed
            /\ extracted_profile' = c.cleaned
            /\ research_pending' = c.pending
            /\ research_tasks' = c.tasks
            /\ fields_researched' = c.researched
            /\ messages' = Append(Sent(user_message), AssistantMessage(c.reply))
            /\ result' =
                 [kind |-> "reply", user_message |-> user_message, prev |-> <<Stored>>,
                  reply |-> c.reply, search_performed |-> c.search_performed,
                  ready_for_analysis |-> user_wants_finish(user_message) \/ BaseReady(c.cleaned),
                  fields_collected |-> CollectedOf(ALL_FIELDS, c.cleaned),
                  fields_missing |-> MissingOf(REQUIRED_FIELDS, c.cleaned),
                  resolution |-> c.resolution,
                  field_searched |-> c.decision.field_being_researched,
                  searched |-> c.searched, shape |-> c.shape,
                  proposal |-> IF c.shape = "dict" THEN llm.update ELSE EmptyProfile,
                  suggestion |-> c.suggestion, created |-> c.created,
                  branch |-> c.branch, text |-> AllUserText(c),
                  outcome |-> c.outcome, purpose |-> c.decision.purpose]
    /\ turns' = turns + 1
    /\ UNCHANGED <<probe, convs, alone, sys_path, groq>>

\* A turn in which run_chat raises (updated_profile is null and the suggestion of a
\* field-specific search is read from it): nothing is returned, nothing is stored.
Crash ==
    /\ turns < MaxTurns
    /\ \E user_message \in Utterances, llm \in {o \in LLMOutputs : o.shape = "null"} :
         \E search_text \in SearchTextsFor(user_message) :
         \E c \in {Call(user_message, search_text, llm)} :
            /\ c.crashed
            /\ messages' = Sent(user_message)
            /\ result' = [NoResult EXCEPT !.kind = "crash", !.prev = <<Stored>>,
                                          !.user_message = user_message,
                                          !.field_searched = c.decision.field_being_researched,
                                          !.searched = c.searched, !.shape = c.shape,
                                          !.outcome = c.outcome,
                                          !.purpose = c.decision.purpose]
    /\ turns' = turns + 1
    /\ UNCHANGED <<extracted_profile, research_pending, research_tasks, fields_researched,
                   probe, convs, alone, sys_path, groq>>

Next == Greeting \/ NoCredential \/ Turn \/ Crash

Spec == Init /\ [][Next]_vars

\* ------------------------------------------- the grounding validator alone
\* Candidate values a model may propose, by field.
MoneyValues ==
    {<<"R$", "50.000">>, <<"R$", "5.000">>, <<"5000">>, <<"5", "mil">>, <<"500">>,
     <<"5.000">>, <<"50000">>}

TokenValues == {<<"b2b">>, <<"B2C">>, <<"misto">>, <<"varejo">>, <<"perfumaria">>}

ProbeValues(field) == IF field \in monetary_fields THEN MoneyValues ELSE TokenValues

\* What the user may have typed so far.
ProbeTexts ==
    {<<"5", "mil">>, <<"500">>, <<"tenho", "5", "mil", "para", "investir", "agora">>,
     <<"vendo", "brownies", "para", "jovens", "em", "campinas">>,
     <<"vendo", "perfumaria", "b2b">>}

GroundingInit ==
    /\ probe = NoProbe
    /\ convs = <<>>
    /\ alone = <<>>
    /\ sys_path = InitPath
    /\ groq = NoGroq
    /\ extracted_profile = EmptyProfile
    /\ messages = <<>>
    /\ research_pending = <<>>
    /\ research_tasks = <<>>
    /\ fields_researched = <<>>
    /\ turns = 0
    /\ result = NoResult

\* validate_extraction({field: value}, text, {}) and _value_has_basis on the same item.
ValidateCandidate ==
    /\ \E field \in monetary_fields \cup {"modelo", "segmento"} :
         \E value \in ProbeValues(field), text \in ProbeTexts :
            probe' = [NoProbe EXCEPT
                        !.call = "validate", !.field = field, !.value = value, !.text = text,
                        !.accepted = _value_has_basis(field, value, Lower(text)),
                        !.validated = validate_extraction(Proposal(field, value), text, EmptyProfile)[field]]
    /\ UNCHANGED <<extracted_profile, research_pending, research_tasks, fields_researched,
                   messages, turns, result, convs, alone, sys_path, groq>>

\* Profiles handed to the inference: empty, the one of test_fixes.py, and the
\* profile of test_research_loop.py with a site of its own or a social page as site.
InferProfiles ==
    {EmptyProfile,
     [EmptyProfile EXCEPT !["tipo_produto"] = <<"produto">>,
                          !["canais_venda"] = <<"loja", "física">>],
     [TestProfile EXCEPT !["site_url"] = <<"https://acme.com.br">>],
     [TestProfile EXCEPT !["site_url"] = <<"https://instagram.com/acme">>]}

\* What the user has typed in the conversation.
InferTexts ==
    {<<"fabrico", "e", "vendo", "brownies", "tenho", "instagram">>,
     <<"toco", "sozinho">>,
     <<"vendo", "na", "rua">>,
     <<"meu", "site", "é", "acme.com.br">>}

\* _infer_fields_from_context(messages, profile) and the loop that applies what it
\* returns to the profile.
InferCandidate ==
    /\ \E given \in InferProfiles, text \in InferTexts :
         probe' = [NoProbe EXCEPT
                     !.call = "infer", !.text = text, !.given = given,
                     !.inferred = InferredFields(<<UserMessage(text)>>, given),
                     !.left = _infer_fields_from_context(<<UserMessage(text)>>, given)]
    /\ UNCHANGED <<extracted_profile, research_pending, research_tasks, fields_researched,
                   messages, turns, result, convs, alone, sys_path, groq>>

\* What a model may propose in one updated_profile, and the profiles it may be
\* checked against.
FrameProposals ==
    {[Proposal("modelo", <<"b2b">>) EXCEPT !["segmento"] = <<"perfumaria">>,
                                          !["cliente_ideal"] = <<"jovens">>],
     [Proposal("segmento", <<"b2c">>) EXCEPT !["capital_disponivel"] = <<"zero">>,
                                            !["localizacao"] = <<"campinas">>],
     [Proposal("modelo", <<"varejo">>) EXCEPT !["site_url"] = <<"https://instagram.com/acme">>,
                                             !["faturamento_mensal"] = <<"5", "mil">>]}

FramePrevious == {EmptyProfile, TestProfile}

\* validate_extraction(updated_profile, text, previous_profile) on whole profiles;
\* it reads its arguments and writes only the dict it returns, so both arguments
\* are after the call what they were before it.
ValidateProfile ==
    /\ \E updated_profile \in FrameProposals, previous_profile \in FramePrevious,
          text \in ProbeTexts :
         probe' = [NoProbe EXCEPT
                     !.call = "frame", !.text = text,
                     !.proposal = updated_profile, !.given = previous_profile,
                     !.returned = validate_extraction(updated_profile, text, previous_profile),
                     !.proposal_left = updated_profile, !.left = previous_profile]
    /\ UNCHANGED <<extracted_profile, research_pending, research_tasks, fields_researched,
                   messages, turns, result, convs, alone, sys_path, groq>>

GroundingNext == ValidateCandidate \/ InferCandidate \/ ValidateProfile

GroundingSpec == GroundingInit /\ [][GroundingNext]_vars

\* -------------------------------------- two conversations, one interpreter
\* What the two users may type, and what the language model may answer them.
ConvUtterances ==
    {<<"não", "sei">>, <<"vendo", "brownies", "para", "jovens", "em", "campinas">>}

ConvOutputs ==
    {Output("dict", LLMAsk("cliente_ideal"), Proposal("cliente_ideal", <<"jovens">>)),
     Output("dict", LLMPlain, Proposal("margem_lucro", <<"30%">>))}

\* What a caller holds of a call that has not been made yet.
NoReturn ==
    [kind |-> "init", reply |-> NoReply, search_performed |-> FALSE,
     ready_for_analysis |-> FALSE, fields_collected |-> <<>>, fields_missing |-> <<>>]

\* What one caller holds of its conversation: the stored profile, the history, and
\* what the last call returned; ticks are the global positions of its calls.
Conv(profile, history) ==
    [profile |-> profile, pending |-> <<>>, tasks |-> <<>>, researched |-> <<>>,
     messages |-> history, turns |-> 0, ticks |-> <<>>, returned |-> NoReturn]

\* A write to the search path that a second search undoes.
TogglePath(path) == IF script_dir \in SeqToSet(path) THEN <<>> ELSE <<script_dir>>

\* sys.path.insert(0, script_dir)
InsertPath(path) == <<script_dir>> \o path

\* from cli import search_duckduckgo, scrape_page: found when a directory of the
\* path holds cli.py.
ImportCli(path) == script_dir \in SeqToSet(path)

\* The first lines of search_internet in an interpreter whose search path is path:
\* the path they leave behind, and whether the import finds cli.
search_internet(path) ==
    [path |-> InsertPath(path), found |-> ImportCli(InsertPath(path))]

\* The call of one conversation's turn.
ConvCall(conv, user_message, search_text, llm) ==
    run_chat(Append(conv.messages, UserMessage(user_message)), user_message,
             conv.profile, conv.pending, conv.tasks, conv.researched, search_text, llm)

\* What the caller holds after the call c of run_chat in an interpreter whose
\* search path is path, and the path the call leaves behind.
ChatStep(conv, user_message, c, path, tick) ==
    LET sent == Append(conv.messages, UserMessage(user_message))
        s == search_internet(path)
        raised == c.crashed \/ (c.searched /\ ~s.found)
        called == [conv EXCEPT !.turns = @ + 1, !.ticks = Append(@, tick)]
    IN [path |-> IF c.searched THEN s.path ELSE path,
        conv |-> IF raised
                 THEN [called EXCEPT !.messages = sent,
                                     !.returned = [NoReturn EXCEPT !.kind = "crash"]]
                 ELSE [called EXCEPT
                         !.profile = c.cleaned, !.pending = c.pending,
                         !.tasks = c.tasks, !.researched = c.researched,
                         !.messages = Append(sent, AssistantMessage(c.reply)),
                         !.returned =
                            [kind |-> "reply", reply |-> c.reply,
                             search_performed |-> c.search_performed,
                             ready_for_analysis |-> user_wants_finish(user_message) \/ BaseReady(c.cleaned),
                             fields_collected |-> CollectedOf(ALL_FIELDS, c.cleaned),
                             fields_missing |-> MissingOf(REQUIRED_FIELDS, c.cleaned)]]]

IsolationInit ==
    /\ convs = <<Conv(TestProfile, TestMessages), Conv(EmptyProfile, <<>>)>>
    /\ alone = convs
    /\ sys_path = InitPath
    /\ groq = NoGroq
    /\ probe = NoProbe
    /\ extracted_profile = EmptyProfile
    /\ messages = <<>>
    /\ research_pending = <<>>
    /\ research_tasks = <<>>
    /\ fields_researched = <<>>
    /\ turns = 0
    /\ result = NoResult

\* What search_internet may return to them.
ConvSearchTexts == {NoResults, <<"brownies", "artesanais">>}

\* The next call of either conversation, whatever the other has done so far; the
\* same call is made for its copy in a fresh process.
ConvTurn ==
    /\ \E k \in {j \in DOMAIN convs : convs[j].turns < MaxConvTurns} :
         \E user_message \in ConvUtterances, llm \in ConvOutputs, search_text \in ConvSearchTexts :
         \E c \in {ConvCall(convs[k], user_message, search_text, llm)},
            a \in {ConvCall(alone[k], user_message, search_text, llm)} :
         \E tick \in {convs[1].turns + convs[2].turns + 1} :
         \E shared \in {ChatStep(convs[k], user_message, c, sys_path, tick)},
            own \in {ChatStep(alone[k], user_message, a, InitPath, tick)} :
            /\ Len(shared.path) <= MaxPath
            /\ convs' = [convs EXCEPT ![k] = shared.conv]
            /\ alone' = [alone EXCEPT ![k] = own.conv]
            /\ sys_path' = shared.path
    /\ UNCHANGED <<extracted_profile, research_pending, research_tasks, fields_researched,
                   messages, turns, result, probe, groq>>

IsolationSpec == IsolationInit /\ [][ConvTurn]_vars

\* ------------------------------------------------ the completion fallback
\* models, by prefer_small.
models(prefer_small) ==
    IF prefer_small
    THEN <<"llama-3.1-8b-instant", "llama3-8b-8192", "llama3-70b-8192",
           "llama-3.3-70b-versatile">>
    ELSE <<"llama-3.3-70b-versatile", "llama-3.1-8b-instant", "llama3-8b-8192",
           "llama3-70b-8192">>

\* What client.chat.completions.create may do: answer, or raise an error whose
\* message holds "429" (is_rate_limit), the daily-quota words (is_tpd) and the
\* "400" model words (is_model_error), in any combination.
Completions ==
    {[ok |-> TRUE, is_rate_limit |-> FALSE, is_tpd |-> FALSE, is_model_error |-> FALSE]}
    \cup {[ok |-> FALSE, is_rate_limit |-> r, is_tpd |-> t, is_model_error |-> m] :
             r \in BOOLEAN, t \in BOOLEAN, m \in BOOLEAN}

\* break: on to the next model (mi counts from 1 here, from 0 in the code).
NextModel(g) == [g EXCEPT !.mi = @ + 1, !.attempt = 0]

\* The except clause with every error but a rate limit that has retries left
\* sent on to the next model.
HandleSkipping(g, e) ==
    IF e.is_rate_limit /\ g.attempt < g.max_retries - 1
    THEN [g EXCEPT !.attempt = @ + 1]
    ELSE NextModel(g)

\* The except clause of one attempt.
Handle(g, e) ==
    LET last == g.mi = Len(models(g.prefer_small))
    IN IF e.is_model_error /\ ~last THEN NextModel(g)
       ELSE IF e.is_rate_limit /\ e.is_tpd /\ ~last THEN NextModel(g)
       ELSE IF e.is_rate_limit /\ g.attempt < g.max_retries - 1
            THEN [g EXCEPT !.attempt = @ + 1]
       ELSE IF e.is_rate_limit /\ ~last THEN NextModel(g)
       ELSE [g EXCEPT !.status = "raised", !.error = "completion"]

\* One pass of the inner loop body: the completion call and what follows it.
AfterAttempt(g, e) ==
    LET model == models(g.prefer_small)[g.mi]
        logged == [g EXCEPT !.log = Append(@, [model |-> model, mi |-> g.mi, outcome |-> e])]
    IN IF e.ok THEN [logged EXCEPT !.status = "returned", !.content = model]
       ELSE Handle(logged, e)

FallbackInit ==
    /\ groq \in {[NoGroq EXCEPT !.status = "running", !.prefer_small = p,
                                !.max_retries = r, !.mi = 1] :
                    p \in BOOLEAN, r \in 0..MaxRetries}
    /\ probe = NoProbe
    /\ convs = <<>>
    /\ alone = <<>>
    /\ sys_path = InitPath
    /\ extracted_profile = EmptyProfile
    /\ messages = <<>>
    /\ research_pending = <<>>
    /\ research_tasks = <<>>
    /\ fields_researched = <<>>
    /\ turns = 0
    /\ result = NoResult

Others == <<extracted_profile, research_pending, research_tasks, fields_researched,
            messages, turns, result, probe, convs, alone, sys_path>>

\* for attempt in range(max_retries): try ... except ...
Attempt ==
    /\ groq.status = "running"
    /\ groq.mi <= Len(models(groq.prefer_small))
    /\ groq.attempt < groq.max_retries
    /\ \E e \in Completions : groq' = AfterAttempt(groq, e)
    /\ UNCHANGED Others

\* The inner loop ends without a break (range(max_retries) is empty).
RangeExhausted ==
    /\ groq.status = "running"
    /\ groq.mi <= Len(models(groq.prefer_small))
    /\ groq.attempt >= groq.max_retries
    /\ groq' = NextModel(groq)
    /\ UNCHANGED Others

\* raise Exception("Todos os modelos esgotaram o rate limit diário.")
AllExhausted ==
    /\ groq.status = "running"
    /\ groq.mi > Len(models(groq.prefer_small))
    /\ groq' = [groq EXCEPT !.status = "raised", !.error = "todos"]
    /\ UNCHANGED Others

FallbackNext == Attempt \/ RangeExhausted \/ AllExhausted

\* The interpreter runs the loop on: a call that has not ended takes its next step.
FallbackSpec == FallbackInit /\ [][FallbackNext]_vars /\ WF_vars(FallbackNext)

\* ------------------------------------------------------------------ claims
\* The profile the last call was given.
Prev == result.prev[1]

\* The last call was a turn that returned after calling the model.
TurnReturned == result.kind = "reply"

\* The last call found a suggestion pending and was given a message.
PendingTurn == TurnReturned /\ Prev.pending # <<>> /\ Truthy(result.user_message)

\* The field and the value of the suggestion the last call found pending.
PendingField == Prev.pending[1].field

PendingValue == Prev.pending[1].suggested_value

WordsOf(v) == SeqToSet(Normalize(v))

\* No word of the value occurs in the user's accumulated text, and the text is too
\* long for the short-answer leniency.
NoTextualBasis(v, text) == WordsOf(v) \cap WordsOf(text) = {} /\ Len(text) > 5

\* C1 (sticky data): in every turn, a field that is non-empty with value V in the
\* input profile, and for which the model proposes nothing or a value without
\* textual basis, still has value V in the returned profile.
C1_StickyData ==
    TurnReturned =>
        \A F \in FieldNames :
            (/\ Truthy(Prev.profile[F])
             /\ \/ ~Truthy(result.proposal[F])
                \/ NoTextualBasis(result.proposal[F], result.text))
            => extracted_profile[F] = Prev.profile[F]

\* C2 (no silent loss): every field that is non-empty in the profile passed into a
\* turn is non-empty in the profile the turn returns, whatever the model returned.
C2_NoSilentLoss ==
    TurnReturned =>
        \A F \in FieldNames : Truthy(Prev.profile[F]) => Truthy(extracted_profile[F])

\* C3 (hallucination rejection): a value the model proposes for a field that is
\* empty in the stored profile, and that has no textual basis, is dropped: the field
\* is empty and not in fields_collected after the turn.  (modelo is left out: its
\* class rule is membership in the token set.)
C3_HallucinationRejection ==
    TurnReturned =>
        \A F \in FieldNames \ {"modelo"} :
            (/\ ~Truthy(Prev.profile[F])
             /\ Truthy(result.proposal[F])
             /\ NoTextualBasis(result.proposal[F], result.text))
            => /\ ~Truthy(extracted_profile[F])
               /\ ~InSeq(F, result.fields_collected)

MonotonicWithCredential ==
    result.kind \in {"greeting", "reply", "crash"} =>
        \A f \in FieldNames : InSeq(f, Prev.researched) => InSeq(f, fields_researched)

\* A turn given a non-empty researched set returns a larger one.
ResearchedGrows ==
    /\ TurnReturned
    /\ Prev.researched # <<>>
    /\ Len(fields_researched) > Len(Prev.researched)

\* C5 (monotonic research set): the researched set returned by a call holds every
\* element of the set the call was given; no outcome of a call, the model failing or
\* the credential missing included, removes an element or clears the set.
C5_MonotonicResearched ==
    result.kind # "init" =>
        \A f \in FieldNames : InSeq(f, Prev.researched) => InSeq(f, fields_researched)

\* C6 (pending reads as absent): in every returned profile with a record pending
\* for field F, F is empty and is not in fields_collected.
C6_PendingReadsAbsent ==
    (result.kind # "init" /\ research_pending # <<>>) =>
        /\ ~Truthy(extracted_profile[research_pending[1].field])
        /\ ~InSeq(research_pending[1].field, result.fields_collected)

\* C7 (rejection precedence): while a suggestion is pending, a message that matches a
\* rejection pattern is resolved as rejected, with a task of origin
\* pesquisa_rejeitada, never as confirmed.
C7_RejectionPrecedence ==
    (PendingTurn /\ MatchesReject(result.user_message)) =>
        /\ result.resolution = "reject"
        /\ InSeq(Task(PendingField, "pesquisa_rejeitada"), research_tasks)

\* C8 (confirmation, implicit acceptance): when a suggestion V is pending for F and
\* the message is classified as confirm, or says "não sei" again, the turn leaves F
\* holding V, appends a task of origin pesquisa_assistida, has F researched, removes
\* the record and makes no search.
C8_Confirmation ==
    (/\ PendingTurn
     /\ \/ detect_research_response(result.user_message) = "confirm"
        \/ (SaidDontKnow(result.user_message) /\ ~MatchesReject(result.user_message)))
    => /\ extracted_profile[PendingField] = PendingValue
       /\ research_tasks = Append(Prev.tasks, Task(PendingField, "pesquisa_assistida"))
       /\ InSeq(PendingField, fields_researched)
       /\ research_pending = <<>>
       /\ ~result.searched

\* C9 (rejection outcome): a turn that resolves the pending suggestion for F as
\* rejected returns F empty, F researched, no pending record and one more task, the
\* one noting the rejection.
C9_RejectionOutcome ==
    (TurnReturned /\ result.resolution = "reject") =>
        /\ ~Truthy(extracted_profile[PendingField])
        /\ InSeq(PendingField, fields_researched)
        /\ research_pending = <<>>
        /\ research_tasks = Append(Prev.tasks, Task(PendingField, "pesquisa_rejeitada"))

\* C10 (override outcome): when a suggestion is pending for F and the message matches
\* no confirmation, rejection or don't-know pattern, the returned profile holds F
\* equal to the message, F is researched and the record is removed.
C10_OverrideOutcome ==
    (/\ PendingTurn
     /\ ~MatchesConfirm(result.user_message)
     /\ ~MatchesReject(result.user_message)
     /\ ~is_still_dont_know(result.user_message)
     /\ ~UserDoesntKnow(result.user_message))
    => /\ extracted_profile[PendingField] = result.user_message
       /\ InSeq(PendingField, fields_researched)
       /\ research_pending = <<>>

\* C11 (no search while pending): a turn whose input profile holds a pending record,
\* whatever the user's message (an empty one included), makes no external search
\* (search_performed is false) and creates no new pending record.
C11_NoSearchWhilePending ==
    (TurnReturned /\ Prev.pending # <<>>) =>
        /\ ~result.search_performed
        /\ ~result.created

\* The six required and the seven priority-optional fields, counted on the
\* returned profile.
RequiredPresent ==
    Cardinality({f \in {"nome_negocio", "segmento", "modelo", "localizacao",
                        "dificuldades", "objetivos"} : Truthy(extracted_profile[f])})

PriorityPresent ==
    Cardinality({f \in {"capital_disponivel", "num_funcionarios", "canais_venda",
                        "cliente_ideal", "ticket_medio", "modelo_operacional",
                        "faturamento_mensal"} : Truthy(extracted_profile[f])})

\* C12 (readiness policy): in every turn ready_for_analysis is true exactly when the
\* user asked to finish, or all 6 required fields and at least 5 of the 7 priority
\* fields are non-empty in the returned profile (false with 4, true with 5).
C12_ReadinessPolicy ==
    TurnReturned =>
        (result.ready_for_analysis <=>
            \/ user_wants_finish(result.user_message)
            \/ (RequiredPresent = 6 /\ PriorityPresent >= 5))

\* C12 witness: a turn without a finish request brings the priority count from 4
\* to 5 with every required field present, and returns ready.
C12_Witness ==
    /\ TurnReturned
    /\ ~user_wants_finish(result.user_message)
    /\ RequiredPresent = 6
    /\ Len(CollectedOf(PRIORITY_OPTIONAL, Prev.profile)) = 4
    /\ PriorityPresent = 5
    /\ result.ready_for_analysis

\* C13 (required fields gate analysis): ready_for_analysis is never true in a turn
\* whose returned profile has a required field empty: ready_for_analysis implies
\* that fields_missing is empty.
C13_RequiredGateAnalysis ==
    (TurnReturned /\ result.ready_for_analysis) =>
        /\ result.fields_missing = <<>>
        /\ RequiredPresent = 6

\* C14 (research trigger guard): a search for a specific field F is started only in
\* a turn where no suggestion is pending, the user's message has a don't-know or
\* look-it-up intent, and F is not in the researched set at the start of the turn.
C14_ResearchTriggerGuard ==
    (result.kind \in {"reply", "crash"} /\ result.field_searched # "") =>
        /\ Prev.pending = <<>>
        /\ UserDoesntKnow(result.user_message)
        /\ ~InSeq(result.field_searched, Prev.researched)

\* The tasks the last turn appended to the log.
NewTasks == {research_tasks[i] : i \in (Len(Prev.tasks) + 1)..Len(research_tasks)}

\* C15 (irrelevant results): a turn whose field-specific search for F returns
\* results that fail the relevance check creates no pending record, presents no
\* suggestion (search_performed is false), appends a task for F and leaves F in the
\* researched set.
C15_IrrelevantResults ==
    (result.kind \in {"reply", "crash"} /\ result.outcome = "irrelevant") =>
        /\ TurnReturned
        /\ ~result.created
        /\ research_pending = Prev.pending
        /\ ~result.search_performed
        /\ result.suggestion = Null
        /\ Len(research_tasks) > Len(Prev.tasks)
        /\ \E t \in NewTasks : t.field = result.field_searched
        /\ InSeq(result.field_searched, fields_researched)

\* A turn whose irrelevant search left its task for cliente_ideal in the log.
IrrelevantTaskAppended ==
    /\ TurnReturned
    /\ result.outcome = "irrelevant"
    /\ result.field_searched = "cliente_ideal"
    /\ ~InSeq("cliente_ideal", Prev.researched)
    /\ Task("cliente_ideal", "busca_irrelevante") \in NewTasks
    /\ InSeq("cliente_ideal", fields_researched)

\* C16 (no results): a turn whose field-specific search for F returns no results at
\* all appends a task for F, leaves F in the researched set and creates no pending
\* record, whatever the phrasing that triggered the search and whether or not
\* required fields are missing.
C16_NoResults ==
    (result.kind \in {"reply", "crash"} /\ result.outcome = "no_results" /\ result.field_searched # "") =>
        /\ TurnReturned
        /\ ~result.created
        /\ \E t \in NewTasks : t.field = result.field_searched
        /\ InSeq(result.field_searched, fields_researched)

\* The last turn's call to the language model raised.
CompletionFailed == TurnReturned /\ result.shape = "raise"

\* The reply holds the prompt of field f.
ReplyPrompts(f) ==
    /\ result.reply.about = f
    /\ \/ result.reply.kind = "prompt"
       \/ result.reply.appendix \in {"prompt", "enrich"}

\* C17 (completion failure is not surfaced): a turn whose language-model call
\* raises returns, and when the user did not ask to finish and some field is still
\* empty its reply holds the prompt of the first missing field in canonical order.
C17_CompletionFailureReply ==
    (result.kind \in {"reply", "crash"} /\ result.shape = "raise") =>
        /\ TurnReturned
        /\ (~user_wants_finish(result.user_message) /\ Remaining(extracted_profile) # <<>>)
               => ReplyPrompts(Remaining(extracted_profile)[1])

\* C18 (completion failure leaves the profile unchanged): the profile returned by
\* a turn whose language-model call raised equals the profile passed in, field by
\* field.
C18_CompletionFailureProfile ==
    CompletionFailed => \A f \in FieldNames : extracted_profile[f] = Prev.profile[f]

\* The model's output of the last turn was not a well-formed structured reply: not
\* JSON or without an update object, a null update object, or JSON without a reply.
Malformed ==
    \/ result.shape \in {"alias", "null"}
    \/ /\ result.shape = "dict"
       /\ \E o \in LLMOutputs : o.shape = "dict" /\ o.update = result.proposal /\ o.reply.kind = "none"

\* C19 (malformed model output is recovered locally): for every malformed shape of
\* the model's output, in every kind of turn, run_chat returns normally with a
\* non-empty reply and keeps the fields that were stored.
C19_MalformedRecovered ==
    (result.kind \in {"reply", "crash"} /\ Malformed) =>
        /\ TurnReturned
        /\ result.reply.kind # "none"
        /\ \A f \in FieldNames : Truthy(Prev.profile[f]) => Truthy(extracted_profile[f])

\* Some registered field of the profile holds a value.
NonEmpty(p) == \E f \in FieldNames : Truthy(p[f])

\* C20 (the missing credential is the only fatal condition): a call without the
\* credential makes no search and no model call and returns the static error with
\* an empty profile, ready_for_analysis false and every required field missing;
\* every other call returns, and a profile that held a value is not returned empty
\* (its pending record counts as content).
C20_OnlyFatalCondition ==
    /\ result.kind = "error" =>
          /\ result.reply = ErrorReply
          /\ ~NonEmpty(extracted_profile)
          /\ ~result.searched /\ ~result.search_performed
          /\ result.shape = "none"
          /\ ~result.ready_for_analysis
          /\ result.fields_missing = REQUIRED_FIELDS
    /\ result.kind \in {"greeting", "reply", "crash"} =>
          /\ result.kind # "crash"
          /\ NonEmpty(Prev.profile) => (NonEmpty(extracted_profile) \/ research_pending # <<>>)

\* The magnitudes the validator parses from the windows of 1 to 3 words of a text.
TextMagnitudes(text) ==
    {_extract_number(w) : w \in {x \in Windows(Normalize(text)) : Len(x) <= 3}} \ {NoNumber}

\* The two magnitudes are within 10% of each other.
Close(c, m) == 10 * Min2(c, m) >= 9 * Max2(c, m)

\* The validator was called on a monetary candidate that parses to a magnitude.
MoneyProbe(fields) == probe.field \in fields /\ _extract_number(probe.value) # NoNumber

\* C21 (monetary grounding rejects invented numbers): for capital_disponivel,
\* faturamento_mensal and ticket_medio, a candidate whose parsed magnitude differs
\* by more than 10% from every magnitude parsed from the user's text is rejected.
C21_MonetaryRejects ==
    (/\ MoneyProbe({"capital_disponivel", "faturamento_mensal", "ticket_medio"})
     /\ \A m \in TextMagnitudes(probe.text) : ~Close(_extract_number(probe.value), m))
        => (~probe.accepted /\ probe.validated = Null)

\* C22 (monetary grounding tolerates notation): a monetary candidate is accepted
\* whenever some window of 1 to 3 words of the user's text parses to a magnitude
\* within 10% of the candidate's; against the text "5 mil" the candidates
\* "R$ 5.000", "5000" and "5 mil" are accepted for capital_disponivel and for
\* investimento_marketing.
C22_MonetaryTolerates ==
    /\ (/\ MoneyProbe(monetary_fields)
        /\ \E m \in TextMagnitudes(probe.text) : Close(_extract_number(probe.value), m))
           => (probe.accepted /\ probe.validated = probe.value)
    /\ (/\ probe.field \in {"capital_disponivel", "investimento_marketing"}
        /\ probe.text = <<"5", "mil">>
        /\ probe.value \in {<<"R$", "5.000">>, <<"5000">>, <<"5", "mil">>})
           => (probe.accepted /\ probe.validated = probe.value)

C22_Witness ==
    /\ probe.field = "faturamento_mensal"
    /\ probe.value = <<"R$", "5.000">>
    /\ probe.text = <<"tenho", "5", "mil", "para", "investir", "agora">>
    /\ _extract_number(probe.value) = 5000
    /\ 5000 \in TextMagnitudes(probe.text)
    /\ probe.accepted

\* The four values the business-model field may hold.
AllowedTokens == {<<"B2B">>, <<"B2C">>, <<"D2C">>, <<"MISTO">>}

C25_EchoSuppression ==
    (TurnReturned /\ CharLen(Normalize(result.user_message)) >= 30) => ~result.reply.echo

C27_InferenceNeverOverrides ==
    probe.call = "infer" =>
        \A f \in FieldNames :
            Truthy(probe.given[f]) =>
                /\ probe.inferred[f] = Null
                /\ probe.left[f] = probe.given[f]

\* What does hold of the inference: no entry is returned for a field that is filled, and
\* a value is applied only where the profile is empty after the call.
InferenceFillsOnlyEmpty ==
    probe.call = "infer" =>
        \A f \in FieldNames :
            /\ Truthy(probe.given[f]) => probe.inferred[f] = Null
            /\ probe.left[f] # probe.given[f] =>
                 \/ ~Truthy(probe.given[f]) /\ probe.left[f] = probe.inferred[f]
                 \/ f = "site_url" /\ probe.left[f] = Null

\* C28: no call issues a field-specific search for a field that an earlier turn of
\* the conversation already searched; the fields of _fields_researched are fields an
\* earlier turn searched.
C28_SearchedOnce ==
    (result.kind \in {"reply", "crash"} /\ result.searched /\ result.field_searched # "")
        => ~InSeq(result.field_searched, Prev.researched)

\* The last call issued the early market search.
EarlyIssued ==
    result.kind \in {"reply", "crash"} /\ result.searched /\ result.purpose = "inicial"

\* The history the last call was given.
SentLen == IF result.kind = "reply" THEN Len(messages) - 1 ELSE Len(messages)

\* C29: a call issues the early market search only when the call before it did not,
\* its history has at most 4 messages and the profile it was given holds segmento
\* and localizacao.
C29_EarlyMarketOnce ==
    [][EarlyIssued' =>
         /\ ~EarlyIssued
         /\ SentLen' <= 4
         /\ Truthy(Prev'.profile["segmento"])
         /\ Truthy(Prev'.profile["localizacao"])]_vars

\* What does hold of the early market search: the history and profile conditions.
EarlyConditions ==
    EarlyIssued =>
        /\ SentLen <= 4
        /\ Truthy(Prev.profile["segmento"])
        /\ Truthy(Prev.profile["localizacao"])

\* The returned reply carries a completion notice.
HasNotice ==
    result.reply.kind \in {"finish", "alldone"} \/ result.reply.appendix \in {"finish", "alldone"}

\* The returned reply carries the prompt of a field, alone or appended.
HasPrompt == result.reply.kind = "prompt" \/ result.reply.appendix = "prompt"

\* C30: a turn whose profile is not ready returns a reply that ends on a question
\* of its own or carries the prompt of the next missing field, and a turn whose
\* profile is ready returns a reply that carries a completion notice.
C30_NextActionAppendix ==
    TurnReturned =>
        /\ ~result.ready_for_analysis => (result.reply.endsq \/ HasPrompt)
        /\ result.ready_for_analysis => HasNotice

\* The half of C30 about a profile that is ready.
ReadyGetsNotice == (TurnReturned /\ result.ready_for_analysis) => HasNotice

\* The returned reply is, or ends with, the collection prompt of a field.
Prompted ==
    TurnReturned
    /\ (result.reply.kind = "prompt" \/ result.reply.appendix \in {"prompt", "enrich"})

\* The fields of tier that are empty in profile p.
EmptyIn(tier, p) == {f \in tier : ~Truthy(p[f])}

C32_PendingCreation ==
    (TurnReturned /\ result.created) =>
        LET f == research_pending[1].field
        IN /\ result.searched
           /\ result.search_performed
           /\ result.field_searched = f
           /\ f \in RESEARCHABLE_FIELDS
           /\ result.shape = "dict"
           /\ Truthy(result.proposal[f])
           /\ research_pending[1].suggested_value = result.proposal[f]
           /\ ~Truthy(Prev.profile[f])
           /\ ~Truthy(extracted_profile[f])

\* The last turn returned a pending record and was not asked to finish.
PendingReturned ==
    TurnReturned /\ research_pending # <<>> /\ ~user_wants_finish(result.user_message)

\* C33: a turn that returns a pending record and was not asked to finish returns a
\* reply without a collection prompt, and the reply is the one that presents the
\* suggested value or the one that asks for the user's opinion of it.
C33_PendingSuppressesPrompt ==
    PendingReturned =>
        /\ result.reply.appendix = "none"
        /\ result.reply.kind \in {"forced", "opinion"}

\* What does hold of such a turn: no collection prompt is appended or substituted.
PendingNoPrompt ==
    PendingReturned =>
        /\ result.reply.appendix = "none"
        /\ result.reply.kind \in {"forced", "opinion", "llm"}
        /\ result.branch = "pending"

IsPrefix(s, t) == Len(s) <= Len(t) /\ SubSeq(t, 1, Len(s)) = s

\* C35 (task log is append-only): in every call but the missing-credential error,
\* the task list of the returned profile begins with the task list of the profile
\* the call was given.
C35_TasksAppendOnly ==
    result.kind \in {"reply", "greeting"} => IsPrefix(Prev.tasks, research_tasks)

\* A turn that appended to a log that was not empty.
TasksAppended ==
    /\ TurnReturned
    /\ Prev.tasks # <<>>
    /\ Len(research_tasks) > Len(Prev.tasks)
    /\ IsPrefix(Prev.tasks, research_tasks)

\* C36 (one task per research outcome): a turn appends at most one task to the
\* log, and a search whose results were irrelevant for F leaves exactly one new
\* task for F.
C36_OneTaskPerOutcome ==
    TurnReturned =>
        /\ Len(research_tasks) <= Len(Prev.tasks) + 1
        /\ result.outcome = "irrelevant" =>
              Cardinality({i \in (Len(Prev.tasks) + 1)..Len(research_tasks) :
                              research_tasks[i].field = result.field_searched}) = 1

\* Every result that is returned carries a reply.
ReturnedReplyNonEmpty ==
    result.kind \in {"reply", "greeting", "error"} => result.reply.kind # "none"

\* C37 (a reply is always produced): every call of run_chat returns a result, and
\* the result carries a non-empty reply, whatever the search and the model gave.
C37_ReplyAlwaysProduced ==
    /\ result.kind # "crash"
    /\ ReturnedReplyNonEmpty

\* C38 (validator frame): validate_extraction leaves the proposal and the previous
\* profile as they were, and every field of the mapping it returns was proposed
\* and holds the proposed value (in upper case for modelo) or the value of the
\* previous profile.
C38_ValidatorFrame ==
    probe.call = "frame" =>
        /\ probe.proposal_left = probe.proposal
        /\ probe.left = probe.given
        /\ \A f \in FieldNames :
              Truthy(probe.returned[f]) =>
                  /\ Truthy(probe.proposal[f])
                  /\ \/ probe.returned[f] = probe.proposal[f]
                     \/ f = "modelo" /\ probe.returned[f] = Upper(probe.proposal[f])
                     \/ probe.returned[f] = probe.given[f]

\* The three cases in one call: a value kept as proposed, modelo in upper case,
\* and a proposal without basis answered with the previous value.
C38_Witness ==
    /\ probe.call = "frame"
    /\ probe.returned["cliente_ideal"] = <<"jovens">>
    /\ probe.proposal["modelo"] = <<"b2b">> /\ probe.returned["modelo"] = <<"B2B">>
    /\ probe.returned["segmento"] = probe.given["segmento"]
    /\ probe.returned["segmento"] # probe.proposal["segmento"]
    /\ ~Truthy(probe.returned["nome_negocio"]) /\ Truthy(probe.given["nome_negocio"])

\* The attempts of the call so far on the model at position k.
Tries(k) == {i \in DOMAIN groq.log : groq.log[i].mi = k}

\* The error of attempt i sends the call on to the next model: the model is
\* unavailable, the daily quota is used up, or the rate limit held to the last retry.
MovesOn(i) ==
    LET e == groq.log[i].outcome
        used == Cardinality({j \in Tries(groq.log[i].mi) : j <= i})
    IN /\ ~e.ok
       /\ \/ e.is_model_error
          \/ e.is_rate_limit /\ e.is_tpd
          \/ e.is_rate_limit /\ used = groq.max_retries

\* An error that is neither a rate limit nor an unavailable model.
OtherError(e) == ~e.ok /\ ~e.is_rate_limit /\ ~e.is_model_error

\* What holds of a call of call_groq_single at every point.
FallbackRules ==
    LET log == groq.log
        list == models(groq.prefer_small)
        n == Len(log)
    IN groq.status # "idle" =>
        /\ n <= Len(list) * groq.max_retries
        /\ \A k \in 1..Len(list) : Cardinality(Tries(k)) <= groq.max_retries
        /\ \A i \in 1..n : log[i].model = list[log[i].mi]
        /\ n > 0 => log[1].mi = 1
        /\ \A i \in 1..(n - 1) : log[i + 1].mi \in {log[i].mi, log[i].mi + 1}
        /\ \A i \in 1..(n - 1) : ~log[i].outcome.ok
        /\ groq.status = "returned" <=> (n > 0 /\ log[n].outcome.ok)
        /\ groq.status = "returned" => groq.content = log[n].model
        /\ \A i \in 1..n :
             (MovesOn(i) /\ log[i].mi < Len(list)) =>
                 IF i < n THEN log[i + 1].mi = log[i].mi + 1
                 ELSE groq.status = "running" /\ groq.mi = log[i].mi + 1
        /\ \A i \in 1..n :
             OtherError(log[i].outcome) => (i = n /\ groq.status = "raised")
        /\ (n > 0 /\ log[n].mi = Len(list) /\ ~log[n].outcome.ok) =>
               \/ groq.status = "raised"
               \/ /\ log[n].outcome.is_rate_limit
                  /\ Cardinality(Tries(Len(list))) < groq.max_retries
                  /\ groq.status = "running" /\ groq.mi = Len(list)
        /\ groq.status = "running" => groq.content = ""

\* C39 (completion fallback terminates): a call of call_groq_single makes at most
\* len(models) x max_retries attempts, in list order; it returns the content of
\* its first successful attempt, goes on to the next model on an unavailable
\* model, a used-up daily quota or an exhausted rate limit, raises at once on any
\* other error and when the last model fails, and it always ends.
C39_FallbackTerminates ==
    []FallbackRules /\ <>(groq.status \in {"returned", "raised"})

\* Every model tried max_retries times under a rate limit, and the error raised.
C39_Witness ==
    /\ groq.status = "raised"
    /\ groq.error = "completion"
    /\ groq.max_retries = 2
    /\ Len(groq.log) = Len(models(groq.prefer_small)) * groq.max_retries

====
